---- MODULE Spec2Model ----
(***************************************************************************)
(* A model of the CSV ingestion core of candlestick_patterns:              *)
(*   csv_upload/csv_processor.py   CSVProcessor (filename parser, exchange *)
(*                                 registry, validators, file engine)      *)
(*   csv_upload/bulk_processor.py  BulkCSVProcessor (archive orchestrator) *)
(*   csv_upload/models.py          the Stock, Candlestick, CsvFile tables  *)
(*                                                                         *)
(* Text that the code inspects character by character (file names,         *)
(* exchange codes, cell values) is a sequence of one-character strings.    *)
(***************************************************************************)
EXTENDS Integers, Sequences, FiniteSets, TLC

VARIABLES
    EXCHANGE_MAPPINGS,    \* CSVProcessor.EXCHANGE_MAPPINGS (class attribute)
    SUPPORTED_EXCHANGES,  \* CSVProcessor.SUPPORTED_EXCHANGES (class attribute)
    filename,             \* the argument of the last parse_filename call
    parsed,               \* <<what that call returned or raised, and the
                          \*   SUPPORTED_EXCHANGES it read>>, <<>> before it
    stock_table,          \* Stock.objects: the rows of table stocks
    candlestick_table,    \* Candlestick.objects: the rows of table candlesticks
    csvfile_table,        \* CsvFile.objects: its rows, oldest first
    processor,            \* the fields of the CSVProcessor instance in use
    heap,                 \* the errors and warnings lists ever created, by identity
    lists,                \* the lists processor.errors and processor.warnings refer to
    runs,                 \* history: every process_csv_file call so far
    calls,                \* history: how many top-level calls were made
    pc,                   \* where process_zip_file stands: "idle" or "loop"
    bulk,                 \* the fields of the BulkCSVProcessor instance
    csv_files,            \* process_zip_file's list of discovered files
    file_index,           \* the per-file loop's i - 1: files done so far
    zip_file,             \* the argument of the last process_zip_file call
    zip_call,             \* history: which top-level call that was
    temp_dirs,            \* the temporary directories that exist
    temp_dir,             \* the directory of the last process_zip_file call
    zip_result,           \* <<the dict that call returned>>, <<>> until it returns
    cleaned_data,         \* <<the cleaned_data of the last CandlestickForm>>
    validation_error      \* the message CandlestickForm.clean raised with, "" if none

regvars == <<EXCHANGE_MAPPINGS, SUPPORTED_EXCHANGES>>
parsevars == <<filename, parsed>>
storevars == <<stock_table, candlestick_table, csvfile_table>>
formvars == <<cleaned_data, validation_error>>
enginevars == <<processor, heap, lists, runs>>
zipvars == <<pc, bulk, csv_files, file_index, zip_file, zip_call, temp_dirs, temp_dir, zip_result>>
vars == <<regvars, parsevars, storevars, enginevars, calls, zipvars, formvars>>

(***************************************************************************)
(* Strings                                                                 *)
(***************************************************************************)
LowerLetters ==
    <<"a","b","c","d","e","f","g","h","i","j","k","l","m",
      "n","o","p","q","r","s","t","u","v","w","x","y","z">>

UpperLetters ==
    <<"A","B","C","D","E","F","G","H","I","J","K","L","M",
      "N","O","P","Q","R","S","T","U","V","W","X","Y","Z">>

Digits == <<"0","1","2","3","4","5","6","7","8","9">>

\* the tables behind str.upper(), str.lower() and int()
ToUpper == [c \in {LowerLetters[i] : i \in 1..26} |->
               UpperLetters[CHOOSE i \in 1..26 : LowerLetters[i] = c]]
ToLower == [c \in {UpperLetters[i] : i \in 1..26} |->
               LowerLetters[CHOOSE i \in 1..26 : UpperLetters[i] = c]]
DigitValue == [c \in {Digits[i] : i \in 1..10} |-> (CHOOSE i \in 1..10 : Digits[i] = c) - 1]

UpperChar(c) == IF c \in DOMAIN ToUpper THEN ToUpper[c] ELSE c
LowerChar(c) == IF c \in DOMAIN ToLower THEN ToLower[c] ELSE c

Upper(s) == [i \in 1..Len(s) |-> UpperChar(s[i])]
Lower(s) == [i \in 1..Len(s) |-> LowerChar(s[i])]

StartsWith(s, p) == Len(s) >= Len(p) /\ SubSeq(s, 1, Len(p)) = p
EndsWith(s, p) == Len(s) >= Len(p) /\ SubSeq(s, Len(s) - Len(p) + 1, Len(s)) = p

\* str.replace(p, ''): every non-overlapping occurrence, left to right
RECURSIVE Remove(_, _)
Remove(s, p) ==
    IF Len(s) < Len(p) THEN s
    ELSE IF StartsWith(s, p) THEN Remove(SubSeq(s, Len(p) + 1, Len(s)), p)
    ELSE <<s[1]>> \o Remove(Tail(s), p)

\* str.split(sep) for a one-character separator
RECURSIVE Split(_, _)
Split(s, sep) ==
    IF \A i \in 1..Len(s) : s[i] # sep THEN <<s>>
    ELSE LET k == CHOOSE i \in 1..Len(s) :
                      s[i] = sep /\ \A j \in 1..(i - 1) : s[j] # sep
         IN  <<SubSeq(s, 1, k - 1)>> \o Split(SubSeq(s, k + 1, Len(s)), sep)

IsDigit(c) == c \in DOMAIN DigitValue
DigitVal(c) == DigitValue[c]

\* the number the digits of s[from..to] write, other characters skipped
RECURSIVE NumVal(_, _, _)
NumVal(s, from, to) ==
    IF to < from THEN 0
    ELSE IF s[to] \in DOMAIN DigitValue THEN 10 * NumVal(s, from, to - 1) + DigitValue[s[to]]
    ELSE NumVal(s, from, to - 1)

(***************************************************************************)
(* datetime.strptime(date_str, '%Y%m%d').date()                            *)
(* The format compiles to the regular expression                           *)
(*   (\d\d\d\d)(1[0-2]|0[1-9]|[1-9])(3[01]|[12]\d|0[1-9]|[1-9]| [1-9])     *)
(* matched at the start of the text; text left over, or a day the month    *)
(* does not have, or year 0, is a ValueError.                              *)
(***************************************************************************)
At(s, i) == IF i \in 1..Len(s) THEN s[i] ELSE ""

NonZeroDigit(c) == c \in DOMAIN DigitValue /\ c # "0"

\* the month directive matches two characters, or one, at position p
MonthTwo(s, p) ==
    \/ At(s, p) = "1" /\ At(s, p + 1) \in {"0", "1", "2"}
    \/ At(s, p) = "0" /\ NonZeroDigit(At(s, p + 1))
MonthOne(s, p) == NonZeroDigit(At(s, p))

\* how many characters the day directive matches when it reads a then b,
\* its alternatives tried in order; 0 when none matches
DayChars(a, b) ==
    IF a = "3" /\ b \in {"0", "1"} THEN 2
    ELSE IF a \in {"1", "2"} /\ b \in DOMAIN DigitValue THEN 2
    ELSE IF a = "0" /\ NonZeroDigit(b) THEN 2
    ELSE IF NonZeroDigit(a) THEN 1
    ELSE IF a = " " /\ NonZeroDigit(b) THEN 2
    ELSE 0
DayLen(s, p) == DayChars(At(s, p), At(s, p + 1))

\* the first month alternative after which the day directive matches
MonthLen(s) ==
    IF MonthTwo(s, 5) /\ DayLen(s, 7) > 0 THEN 2
    ELSE IF MonthOne(s, 5) /\ DayLen(s, 6) > 0 THEN 1
    ELSE 0

IsLeap(y) == (y % 4 = 0 /\ y % 100 # 0) \/ y % 400 = 0

DaysInMonth(y, m) ==
    IF m = 2 THEN (IF IsLeap(y) THEN 29 ELSE 28)
    ELSE IF m \in {4, 6, 9, 11} THEN 30
    ELSE 31

\* datetime(y, m, d): the date, or ValueError
MakeDate(y, m, d) ==
    IF y < 1 \/ d > DaysInMonth(y, m) THEN [ok |-> FALSE]
    ELSE [ok |-> TRUE, date |-> [year |-> y, month |-> m, day |-> d]]

\* the match of month length mlen and day length dlen, turned into a date
DateOfMatch(s, mlen, dlen) ==
    IF mlen = 0 THEN [ok |-> FALSE]
    ELSE IF 4 + mlen + dlen # Len(s) THEN [ok |-> FALSE]    \* unconverted data remains
    ELSE MakeDate(NumVal(s, 1, 4), NumVal(s, 5, 4 + mlen), NumVal(s, 5 + mlen, 4 + mlen + dlen))

MatchDay(s, mlen) == DateOfMatch(s, mlen, DayLen(s, 5 + mlen))

\* [ok |-> TRUE, date |-> [year, month, day]]  or  [ok |-> FALSE]
strptime(s) ==
    IF \E i \in 1..4 : At(s, i) \notin DOMAIN DigitValue THEN [ok |-> FALSE]
    ELSE MatchDay(s, MonthLen(s))

(***************************************************************************)
(* The exchange registry                                                   *)
(***************************************************************************)
\* a column mapping is the dict's items in insertion order: <<csv column, db field>>
BSE_MAPPING ==
    << <<"SC_CODE", "stock_symbol">>, <<"SC_NAME", "stock_name">>,
       <<"SC_GROUP", "stock_group">>, <<"SC_TYPE", "stock_type">>,
       <<"OPEN", "open_price">>, <<"HIGH", "high_price">>,
       <<"LOW", "low_price">>, <<"CLOSE", "close_price">>,
       <<"LAST", "last_price">>, <<"PREVCLOSE", "prev_close_price">>,
       <<"NO_TRADES", "number_of_trades">>, <<"NO_OF_SHRS", "number_of_shares">>,
       <<"NET_TURNOV", "net_turnover">>, <<"TDCLOINDI", "ignore">> >>

NSE_MAPPING ==
    << <<"SYMBOL", "stock_symbol">>, <<"SERIES", "stock_group">>,
       <<"OPEN", "open_price">>, <<"HIGH", "high_price">>,
       <<"LOW", "low_price">>, <<"CLOSE", "close_price">>,
       <<"LAST", "last_price">>, <<"PREVCLOSE", "prev_close_price">>,
       <<"TOTTRDQTY", "number_of_shares">>, <<"TOTTRDVAL", "net_turnover">>,
       <<"TIMESTAMP", "timestamp">>, <<"TOTALTRADES", "number_of_trades">>,
       <<"ISIN", "ignore">> >>

BSE == <<"B", "S", "E">>
NSE == <<"N", "S", "E">>

\* dict.keys() of a column mapping
Keys(mapping) == {mapping[i][1] : i \in 1..Len(mapping)}

InList(x, list) == \E i \in 1..Len(list) : list[i] = x

\* the code stored as it was given
add_exchange_support_verbatim(exchange_name, column_mapping) ==
    /\ EXCHANGE_MAPPINGS' =
          [c \in DOMAIN EXCHANGE_MAPPINGS \cup {exchange_name} |->
              IF c = exchange_name THEN column_mapping ELSE EXCHANGE_MAPPINGS[c]]
    /\ SUPPORTED_EXCHANGES' =
          IF InList(exchange_name, SUPPORTED_EXCHANGES) THEN SUPPORTED_EXCHANGES
          ELSE Append(SUPPORTED_EXCHANGES, exchange_name)

\* CSVProcessor.add_exchange_support
add_exchange_support(exchange_name, column_mapping) ==
    LET name == Upper(exchange_name)
    IN  /\ EXCHANGE_MAPPINGS' =
              [c \in DOMAIN EXCHANGE_MAPPINGS \cup {name} |->
                  IF c = name THEN column_mapping ELSE EXCHANGE_MAPPINGS[c]]
        /\ SUPPORTED_EXCHANGES' =
              IF InList(name, SUPPORTED_EXCHANGES) THEN SUPPORTED_EXCHANGES
              ELSE Append(SUPPORTED_EXCHANGES, name)

\* CSVProcessor.get_supported_exchanges: a copy of the list
get_supported_exchanges(supported) == [i \in 1..Len(supported) |-> supported[i]]

\* list(dict.keys()) of a column mapping
KeyList(mapping) == [i \in 1..Len(mapping) |-> mapping[i][1]]

\* the lookup without exchange.upper()
get_exchange_columns_exact(mappings, exchange) ==
    IF exchange \in DOMAIN mappings THEN KeyList(mappings[exchange]) ELSE <<>>

\* CSVProcessor.get_exchange_columns
get_exchange_columns(mappings, exchange) ==
    IF Upper(exchange) \in DOMAIN mappings THEN KeyList(mappings[Upper(exchange)]) ELSE <<>>

(***************************************************************************)
(* CSVProcessor.parse_filename                                             *)
(***************************************************************************)
DOT_CSV == <<".", "c", "s", "v">>
DOT_CSV_UPPER == <<".", "C", "S", "V">>

\* filename.replace('.csv', '').replace('.CSV', '')
name_without_ext(fname) == Remove(Remove(fname, DOT_CSV), DOT_CSV_UPPER)

MaxExchangeLen == 10
DateLen == 8

\* the checks on the exchange part, the date being good
CheckExchange(date, exchange, exchange_upper, supported) ==
    IF exchange = <<>> \/ Len(exchange) > MaxExchangeLen
    THEN [ok |-> FALSE, error |-> "Exchange name must be 1-10 characters"]
    ELSE IF \A i \in 1..Len(supported) : supported[i] # exchange_upper
    THEN [ok |-> FALSE, error |-> "Unsupported exchange"]
    ELSE [ok |-> TRUE, date |-> date, exchange |-> exchange_upper]

\* the checks after strptime has read the date part
CheckDate(parsed_date, exchange, supported) ==
    IF ~parsed_date.ok THEN [ok |-> FALSE, error |-> "Invalid date format in filename"]
    ELSE CheckExchange(parsed_date.date, exchange, Upper(exchange), supported)

\* the checks on the parts of the name
CheckParts(parts, supported) ==
    IF Len(parts) # 2 THEN [ok |-> FALSE, error |-> "Filename must follow pattern"]
    ELSE IF Len(parts[1]) # DateLen THEN [ok |-> FALSE, error |-> "Date part must be 8 digits"]
    ELSE CheckDate(strptime(parts[1]), parts[2], supported)

\* [ok |-> TRUE, date, exchange]  or  [ok |-> FALSE, error] (the ValueError raised)
parse_filename(fname, supported) ==
    CheckParts(Split(name_without_ext(fname), "_"), supported)

(***************************************************************************)
(* Cell values and the row validators                                      *)
(***************************************************************************)
NoneVal == [isNone |-> TRUE]

\* an exception is its message and the value the message names
Exc(msg, arg) == [msg |-> msg, arg |-> arg]
NoExc == Exc("", "")
Some(v) == [isNone |-> FALSE, v |-> v]

\* the value csv.DictReader gives a column the row is too short to reach (None)
MissingCell == <<"None">>

IsSpace(c) == c \in {" ", "\t"}

\* str.strip()
RECURSIVE LStrip(_)
LStrip(s) == IF s # <<>> /\ IsSpace(s[1]) THEN LStrip(Tail(s)) ELSE s

RECURSIVE RStrip(_)
RStrip(s) == IF s # <<>> /\ IsSpace(s[Len(s)]) THEN RStrip(SubSeq(s, 1, Len(s) - 1)) ELSE s

Strip(s) == RStrip(LStrip(s))

\* the sign of a numeral and the text after it
Negative(s) == s # <<>> /\ s[1] = "-"
Unsigned(s) == IF s # <<>> /\ s[1] \in {"+", "-"} THEN Tail(s) ELSE s

DotCount(u) == Cardinality({i \in 1..Len(u) : u[i] = "."})
\* the digits before the point, and how many digits follow it
WholeEnd(u) == Cardinality({i \in 1..Len(u) : \A j \in 1..i : u[j] # "."})
FractionDigits(u) == Cardinality({i \in 1..Len(u) : \E j \in 1..(i - 1) : u[j] = "."})

\* digits [. digits] with at least one digit
IsNumeral(u) ==
    /\ \A i \in 1..Len(u) : u[i] \in DOMAIN DigitValue \/ u[i] = "."
    /\ DotCount(u) <= 1
    /\ \E i \in 1..Len(u) : u[i] \in DOMAIN DigitValue

INF_WORDS == {<<"i","n","f">>, <<"i","n","f","i","n","i","t","y">>}
NAN_WORD == <<"n","a","n">>

\* decimal.Decimal(text): sign, coefficient and exponent of a numeral, the
\* special values Infinity and NaN, or InvalidOperation (ok = FALSE).
\* Numerals with an exponent part or digit separators are outside the cell
\* alphabet of this model.
DecimalOf(neg, u, word) ==
    IF IsNumeral(u)
    THEN [ok |-> TRUE,
          val |-> [kind |-> "finite", neg |-> neg,
                   coef |-> NumVal(u, 1, Len(u)), exp |-> 0 - FractionDigits(u)]]
    ELSE IF word \in INF_WORDS THEN [ok |-> TRUE, val |-> [kind |-> "Infinity", neg |-> neg]]
    ELSE IF word = NAN_WORD THEN [ok |-> TRUE, val |-> [kind |-> "NaN", neg |-> neg]]
    ELSE [ok |-> FALSE]

Decimal(s) == DecimalOf(Negative(s), Unsigned(s), Lower(Unsigned(s)))

\* int(float(text)): the integer part of a numeral (truncation toward zero);
\* float('inf') converts to OverflowError, float('nan') and text that is no
\* number to ValueError
IntOf(neg, u, word) ==
    IF IsNumeral(u)
    THEN [ok |-> TRUE, val |-> IF neg THEN 0 - NumVal(u, 1, WholeEnd(u)) ELSE NumVal(u, 1, WholeEnd(u))]
    ELSE IF word \in INF_WORDS THEN [ok |-> FALSE, exc |-> "OverflowError"]
    ELSE [ok |-> FALSE, exc |-> "ValueError"]

IntOfFloat(s) == IntOf(Negative(s), Unsigned(s), Lower(Unsigned(s)))

\* what a validator returns: the value, the warnings list after the call, and
\* the exception it let through
Validated(val, warnings, exc) == [val |-> val, warnings |-> warnings, exc |-> exc]

InvalidValue(kind, field_name, value) == [kind |-> kind, field |-> field_name, value |-> value]

\* the try block of validate_decimal, d being Decimal(str(value).strip())
DecimalChecked(d, value, field_name, warnings) ==
    IF d.ok THEN Validated(Some(d.val), warnings, NoExc)
    ELSE Validated(NoneVal, Append(warnings, InvalidValue("Invalid decimal value", field_name, value)), NoExc)

DecimalOfStripped(text, value, field_name, warnings) ==
    IF text = <<>> THEN Validated(NoneVal, warnings, NoExc)
    ELSE DecimalChecked(Decimal(text), value, field_name, warnings)

\* CSVProcessor.validate_decimal
validate_decimal(value, field_name, warnings) ==
    DecimalOfStripped(Strip(value), value, field_name, warnings)

\* the try block of validate_integer, n being int(float(str(value).strip())):
\* ValueError and TypeError are caught, any other exception leaves the call
IntegerChecked(n, value, field_name, warnings) ==
    IF n.ok THEN Validated(Some(n.val), warnings, NoExc)
    ELSE IF n.exc = "ValueError"
    THEN Validated(NoneVal, Append(warnings, InvalidValue("Invalid integer value", field_name, value)), NoExc)
    ELSE Validated(NoneVal, warnings, Exc(n.exc, ""))

IntegerOfStripped(text, value, field_name, warnings) ==
    IF text = <<>> THEN Validated(NoneVal, warnings, NoExc)
    ELSE IntegerChecked(IntOfFloat(text), value, field_name, warnings)

\* CSVProcessor.validate_integer
validate_integer(value, field_name, warnings) ==
    IntegerOfStripped(Strip(value), value, field_name, warnings)

(***************************************************************************)
(* The Stock and Candlestick tables (models.py) and get_or_create          *)
(***************************************************************************)
\* what get_or_create returns, and the table after it
GetOrCreated(obj, created, table) == [obj |-> obj, created |-> created, table |-> table]

\* a lookup that never finds the stock
StockMatchesNone(stocks, stock_symbol, stock_exchange) == {}

\* Stock.objects.filter(stock_symbol, stock_exchange)
StockMatches(stocks, stock_symbol, stock_exchange) ==
    {s \in stocks : s.stock_symbol = stock_symbol /\ s.stock_exchange = stock_exchange}

NewStock(stocks, stock_symbol, stock_exchange, defaults) ==
    [stock_id |-> Cardinality(stocks) + 1,
     stock_symbol |-> stock_symbol,
     stock_exchange |-> stock_exchange,
     stock_name |-> defaults.stock_name,
     stock_group |-> defaults.stock_group]

\* update_or_create: the row found keeps its id and takes the new values
Updated(old, new) ==
    [f \in DOMAIN new |-> IF f \in {"stock_id", "candle_id"} THEN old[f] ELSE new[f]]

UpdateOrCreate(table, found, new) ==
    IF found # {}
    THEN GetOrCreated(Updated(CHOOSE o \in found : TRUE, new), FALSE,
                      (table \ found) \cup {Updated(CHOOSE o \in found : TRUE, new)})
    ELSE GetOrCreated(new, TRUE, table \cup {new})

\* get: the row found; create: the row made from the lookup and the defaults
GetOrCreate(table, found, new) ==
    IF found # {} THEN GetOrCreated(CHOOSE o \in found : TRUE, FALSE, table)
    ELSE GetOrCreated(new, TRUE, table \cup {new})

\* Stock.objects.get_or_create(stock_symbol, stock_exchange, defaults)
Stock_get_or_create(stocks, stock_symbol, stock_exchange, defaults) ==
    GetOrCreate(stocks, StockMatches(stocks, stock_symbol, stock_exchange),
                NewStock(stocks, stock_symbol, stock_exchange, defaults))

\* a lookup that never finds the candlestick
CandleMatchesNone(candlesticks, stock, candle_date) == {}

CandleMatches(candlesticks, stock, candle_date) ==
    {c \in candlesticks : c.stock = stock.stock_id /\ c.candle_date = candle_date}

NewCandle(candlesticks, stock, candle_date, defaults) ==
    [candle_id |-> Cardinality(candlesticks) + 1,
     stock |-> stock.stock_id,
     candle_date |-> candle_date,
     open_price |-> defaults[1],
     high_price |-> defaults[2],
     low_price |-> defaults[3],
     close_price |-> defaults[4],
     prev_close_price |-> defaults[5],
     number_of_trades |-> defaults[6],
     number_of_shares |-> defaults[7],
     net_turnover |-> defaults[8]]

\* a lookup by the day alone, whatever the stock
Candlestick_get_or_create_by_day(candlesticks, stock, candle_date, defaults) ==
    GetOrCreate(candlesticks, {c \in candlesticks : c.candle_date = candle_date},
                NewCandle(candlesticks, stock, candle_date, defaults))

\* Candlestick.objects.get_or_create(stock, candle_date, defaults)
Candlestick_get_or_create(candlesticks, stock, candle_date, defaults) ==
    GetOrCreate(candlesticks, CandleMatches(candlesticks, stock, candle_date),
                NewCandle(candlesticks, stock, candle_date, defaults))

(***************************************************************************)
(* CSVProcessor._process_row                                               *)
(***************************************************************************)
\* the first csv column the mapping sends to db_field, <<>> when there is none
MappedColumn(csv_columns, db_field) ==
    IF \E i \in 1..Len(csv_columns) : csv_columns[i][2] = db_field
    THEN <<csv_columns[CHOOSE i \in 1..Len(csv_columns) :
              /\ csv_columns[i][2] = db_field
              /\ \A j \in 1..(i - 1) : csv_columns[j][2] # db_field][1]>>
    ELSE <<>>

\* row.get(csv_column, '').strip() if csv_column else ''; a cell that is
\* None has no strip()
CellOf(row, col) ==
    IF col = <<>> THEN [val |-> <<>>, exc |-> NoExc]
    ELSE IF col[1] \notin DOMAIN row THEN [val |-> <<>>, exc |-> NoExc]
    ELSE IF row[col[1]] = MissingCell THEN [val |-> <<>>, exc |-> Exc("AttributeError", col[1])]
    ELSE [val |-> Strip(row[col[1]]), exc |-> NoExc]

get_mapped_value(row, csv_columns, db_field) == CellOf(row, MappedColumn(csv_columns, db_field))

\* the five required prices, then the three optional numbers, in call order:
\* <<db field, validator, field name given to the validator>>
NUMBER_FIELDS ==
    << <<"open_price", "decimal", "OPEN">>,
       <<"high_price", "decimal", "HIGH">>,
       <<"low_price", "decimal", "LOW">>,
       <<"close_price", "decimal", "CLOSE">>,
       <<"prev_close_price", "decimal", "PREVCLOSE">>,
       <<"number_of_trades", "integer", "number_of_trades">>,
       <<"number_of_shares", "integer", "number_of_shares">>,
       <<"net_turnover", "decimal", "net_turnover">> >>

RequiredPrices == 5

ValidateOne(kind, value, field_name, warnings) ==
    IF kind = "decimal" THEN validate_decimal(value, field_name, warnings)
    ELSE validate_integer(value, field_name, warnings)

\* the values so far, with the one just validated
Accumulate(acc, v) == [vals |-> Append(acc.vals, v.val), warnings |-> v.warnings, exc |-> v.exc]

\* self.validate_x(get_mapped_value(field), name) for field f, raw being
\* what get_mapped_value gave
ValidateMapped(raw, f, acc) ==
    IF raw.exc # NoExc THEN [acc EXCEPT !.exc = raw.exc]
    ELSE Accumulate(acc, ValidateOne(f[2], raw.val, f[3], acc.warnings))

\* validates fields from..to of NUMBER_FIELDS in order, stopping at an exception
RECURSIVE ValidateFields(_, _, _, _, _)
ValidateFields(row, csv_columns, from, to, acc) ==
    IF from > to \/ acc.exc # NoExc THEN acc
    ELSE ValidateFields(row, csv_columns, from + 1, to,
             ValidateMapped(get_mapped_value(row, csv_columns, NUMBER_FIELDS[from][1]),
                            NUMBER_FIELDS[from], acc))

\* the state a row leaves behind: st is
\* [stocks, candlesticks, processed_stocks, processed_candlesticks, warnings],
\* exc the exception the call raised (NoExc when it returned)
RowRaise(st, e, warnings) ==
    [stocks |-> st.stocks, candlesticks |-> st.candlesticks,
     processed_stocks |-> st.processed_stocks,
     processed_candlesticks |-> st.processed_candlesticks,
     warnings |-> warnings, exc |-> e]

DuplicateWarning(stock_symbol, candle_date) ==
    [kind |-> "Duplicate candlestick data", field |-> "", value |-> stock_symbol, date |-> candle_date]

\* a duplicate that is skipped without a warning
RowStoredSilent(st, stock, candle, stock_symbol, candle_date, warnings) ==
    [stocks |-> stock.table,
     candlesticks |-> candle.table,
     processed_stocks |-> st.processed_stocks + (IF stock.created THEN 1 ELSE 0),
     processed_candlesticks |-> st.processed_candlesticks + (IF candle.created THEN 1 ELSE 0),
     warnings |-> warnings,
     exc |-> NoExc]

\* the counting after the two get_or_create calls
RowStored(st, stock, candle, stock_symbol, candle_date, warnings) ==
    [stocks |-> stock.table,
     candlesticks |-> candle.table,
     processed_stocks |-> st.processed_stocks + (IF stock.created THEN 1 ELSE 0),
     processed_candlesticks |-> st.processed_candlesticks + (IF candle.created THEN 1 ELSE 0),
     warnings |-> IF candle.created THEN warnings
                  ELSE Append(warnings, DuplicateWarning(stock_symbol, candle_date)),
     exc |-> NoExc]

RowCandle(st, stock, trade, stock_symbol, candle_date) ==
    RowStored(st, stock,
              Candlestick_get_or_create(st.candlesticks, stock.obj, candle_date, trade.vals),
              stock_symbol, candle_date, trade.warnings)

\* trade: the eight validated numbers
RowStock(st, trade, symbol, name, group, candle_date, exchange) ==
    IF trade.exc # NoExc THEN RowRaise(st, trade.exc, trade.warnings)
    ELSE RowCandle(st,
             Stock_get_or_create(st.stocks, symbol.val, exchange,
                                 [stock_name |-> name.val, stock_group |-> group.val]),
             trade, symbol.val, candle_date)

\* the Stock looked up or created before the prices are checked
RowTradeStockFirst(st, row, csv_columns, prices, symbol, name, group, candle_date, exchange) ==
    IF prices.exc # NoExc THEN RowRaise(st, prices.exc, prices.warnings)
    ELSE IF \E i \in 1..RequiredPrices : prices.vals[i].isNone
    THEN RowRaise([st EXCEPT !.stocks =
                       Stock_get_or_create(st.stocks, symbol.val, exchange,
                                           [stock_name |-> name.val,
                                            stock_group |-> group.val]).table],
                  Exc("Missing required price data", ""), prices.warnings)
    ELSE RowStock(st, ValidateFields(row, csv_columns, RequiredPrices + 1, Len(NUMBER_FIELDS), prices),
                  symbol, name, group, candle_date, exchange)

\* prices: the five validated prices
RowTrade(st, row, csv_columns, prices, symbol, name, group, candle_date, exchange) ==
    IF prices.exc # NoExc THEN RowRaise(st, prices.exc, prices.warnings)
    ELSE IF \E i \in 1..RequiredPrices : prices.vals[i].isNone
    THEN RowRaise(st, Exc("Missing required price data", ""), prices.warnings)
    ELSE RowStock(st, ValidateFields(row, csv_columns, RequiredPrices + 1, Len(NUMBER_FIELDS), prices),
                  symbol, name, group, candle_date, exchange)

SymbolColumn(col) == IF col = <<>> THEN "SYMBOL" ELSE col[1]

\* symbol, group, name: what get_mapped_value gave for the three fields
RowPrices(st, row, csv_columns, symbol, group, name, candle_date, exchange) ==
    IF symbol.exc # NoExc THEN RowRaise(st, symbol.exc, st.warnings)
    ELSE IF group.exc # NoExc THEN RowRaise(st, group.exc, st.warnings)
    ELSE IF name.exc # NoExc THEN RowRaise(st, name.exc, st.warnings)
    ELSE IF symbol.val = <<>>
    THEN RowRaise(st, Exc("(stock symbol) is required",
                          SymbolColumn(MappedColumn(csv_columns, "stock_symbol"))), st.warnings)
    ELSE RowTrade(st, row, csv_columns,
                  ValidateFields(row, csv_columns, 1, RequiredPrices,
                                 [vals |-> <<>>, warnings |-> st.warnings, exc |-> NoExc]),
                  symbol, name, group, candle_date, exchange)

\* the name read from the mapped column for every exchange
RowNamedMapped(st, row, csv_columns, symbol, candle_date, exchange) ==
    RowPrices(st, row, csv_columns, symbol,
              get_mapped_value(row, csv_columns, "stock_group"),
              get_mapped_value(row, csv_columns, "stock_name"),
              candle_date, exchange)

\* for NSE the name is the symbol
RowNamed(st, row, csv_columns, symbol, candle_date, exchange) ==
    RowPrices(st, row, csv_columns, symbol,
              get_mapped_value(row, csv_columns, "stock_group"),
              IF exchange = NSE THEN symbol ELSE get_mapped_value(row, csv_columns, "stock_name"),
              candle_date, exchange)

process_row(st, row, candle_date, exchange, csv_columns) ==
    RowNamed(st, row, csv_columns, get_mapped_value(row, csv_columns, "stock_symbol"),
             candle_date, exchange)

(***************************************************************************)
(* A CSV file on disk, and how open() and csv.DictReader read it           *)
(*   [name, readable, decodable, delimiter, header, rows]                  *)
(* header is the first line's cells (column names), rows the cells of the  *)
(* lines after it. readable: open() and the read of the sample succeed;    *)
(* decodable: the text after the first buffer is UTF-8 too, so that        *)
(* list(reader) reads it. The files of this model are shorter than the     *)
(* 1024 characters process_csv_file samples, and no column name holds a    *)
(* comma.                                                                  *)
(***************************************************************************)
COMMA == ","
TAB == "\t"

HasComma(cell) == \E i \in 1..Len(cell) : cell[i] = COMMA

\* ',' in sample
CommaInSample(file) ==
    \/ file.delimiter = COMMA /\ Len(file.header) >= 2
    \/ file.delimiter = COMMA /\ \E r \in 1..Len(file.rows) : Len(file.rows[r]) >= 2
    \/ \E r \in 1..Len(file.rows) : \E c \in 1..Len(file.rows[r]) : HasComma(file.rows[r][c])

DetectDelimiter(file) == IF CommaInSample(file) THEN COMMA ELSE TAB

\* a line of tab-separated cells read with ',' as the delimiter: the cells up
\* to the first comma come out as one field, which is no cell of the line
HeaderLine == "<the header line, tabs included>"

\* whether the reader splits the lines where the file's writer did (a file
\* with a single cell per line reads the same under either delimiter)
ReadsAsWritten(file) ==
    \/ DetectDelimiter(file) = file.delimiter
    \/ /\ Len(file.header) <= 1
       /\ \A r \in 1..Len(file.rows) : Len(file.rows[r]) <= 1 /\ ~HasComma(file.rows[r][1])

\* reader.fieldnames
Fieldnames(file) == IF ReadsAsWritten(file) THEN file.header ELSE <<HeaderLine>>

\* one row of list(reader): the dict from field name to cell, None (MissingCell)
\* for the fields a short line does not reach
CellAt(cells, i) == IF i <= Len(cells) THEN cells[i] ELSE MissingCell

DictRow(fieldnames, cells) ==
    [c \in {fieldnames[i] : i \in 1..Len(fieldnames)} |->
        CellAt(cells, CHOOSE i \in 1..Len(fieldnames) : fieldnames[i] = c)]

\* list(reader)
DictRows(file) ==
    IF ReadsAsWritten(file)
    THEN [r \in 1..Len(file.rows) |-> DictRow(file.header, file.rows[r])]
    ELSE [r \in 1..Len(file.rows) |-> DictRow(<<HeaderLine>>, << <<"?">> >>)]

(***************************************************************************)
(* CSVProcessor.process_csv_file                                           *)
(***************************************************************************)
\* CSVProcessor.__init__, and the "Reset counters" block of process_csv_file
NewProcessor == [processed_stocks |-> 0, processed_candlesticks |-> 0,
                 errors |-> <<>>, warnings |-> <<>>]

\* the list objects of a processor: heap holds the contents of every errors
\* and warnings list created so far, refs says which two a processor's
\* attributes are bound to
\* CSVProcessor.__init__: self.errors = [], self.warnings = []
init_lists(h) ==
    [heap |-> h \o << <<>>, <<>> >>,
     refs |-> [errors |-> Len(h) + 1, warnings |-> Len(h) + 2]]

\* the two lists emptied in place, as errors.clear() would
clear_lists(h, refs) ==
    [heap |-> [h EXCEPT ![refs.errors] = <<>>, ![refs.warnings] = <<>>], refs |-> refs]

\* the "Reset counters" block: the attributes are bound to two new lists
reset_lists(h, refs) ==
    [heap |-> h \o << <<>>, <<>> >>,
     refs |-> [errors |-> Len(h) + 1, warnings |-> Len(h) + 2]]

\* the lists after the call: what the row loop appended to them is what the
\* result's errors and warnings, the same objects, hold
Filled(a, result) ==
    [heap |-> [a.heap EXCEPT ![a.refs.errors] = result.errors,
                             ![a.refs.warnings] = result.warnings],
     refs |-> a.refs]

\* no reset: the counters and lists of the file before stay
KeepCounters(self) == self

\* the "Reset counters" block of process_csv_file
ResetCounters(self) == NewProcessor

\* the part of the loop state _process_row works on
RowState(st) ==
    [stocks |-> st.stocks, candlesticks |-> st.candlesticks,
     processed_stocks |-> st.processed_stocks,
     processed_candlesticks |-> st.processed_candlesticks,
     warnings |-> st.warnings]

\* a loop that drops the exception of a row
AfterRowUnrecorded(st, k, r) ==
    [stocks |-> r.stocks, candlesticks |-> r.candlesticks,
     processed_stocks |-> r.processed_stocks,
     processed_candlesticks |-> r.processed_candlesticks,
     warnings |-> r.warnings, errors |-> st.errors]

\* the loop state after row k: r is what _process_row left; an exception it
\* raised becomes an entry of errors. Row k of the data is line k + 1.
AfterRow(st, k, r) ==
    [stocks |-> r.stocks, candlesticks |-> r.candlesticks,
     processed_stocks |-> r.processed_stocks,
     processed_candlesticks |-> r.processed_candlesticks,
     warnings |-> r.warnings,
     errors |-> IF r.exc = NoExc THEN st.errors
                ELSE Append(st.errors, [row |-> k + 1, exc |-> r.exc])]

\* the row loop from row k on; st carries the tables, the counters, the
\* warnings and the errors
RECURSIVE RowLoop(_, _, _, _, _, _)
RowLoop(st, rows, k, candle_date, exchange, csv_columns) ==
    IF k > Len(rows) THEN st
    ELSE RowLoop(AfterRow(st, k, process_row(RowState(st), rows[k], candle_date, exchange, csv_columns)),
                 rows, k + 1, candle_date, exchange, csv_columns)

\* str(e) of an exception that ends the file: the message, the parser's
\* message inside it, the missing column names it lists
FileExc(msg, detail, columns) == [msg |-> msg, detail |-> detail, columns |-> columns]

\* the dict of the except branch
FailureResult(self, error) ==
    [success |-> FALSE, error |-> error,
     stocks_processed |-> self.processed_stocks,
     candlesticks_processed |-> self.processed_candlesticks,
     errors |-> self.errors, warnings |-> self.warnings]

\* a return that reports success only when no row failed
SuccessIfNoErrors(self, candle_date, exchange) ==
    [success |-> self.errors = <<>>,
     stocks_processed |-> self.processed_stocks,
     candlesticks_processed |-> self.processed_candlesticks,
     errors |-> self.errors, warnings |-> self.warnings,
     date |-> candle_date, exchange |-> exchange]

\* the dict of the normal return
SuccessResult(self, candle_date, exchange) ==
    [success |-> TRUE,
     stocks_processed |-> self.processed_stocks,
     candlesticks_processed |-> self.processed_candlesticks,
     errors |-> self.errors, warnings |-> self.warnings,
     date |-> candle_date, exchange |-> exchange]

\* a check of the columns the engine stores only
MissingStoredHeaders(csv_columns, fieldnames) ==
    {csv_columns[i][1] : i \in {j \in 1..Len(csv_columns) : csv_columns[j][2] # "ignore"}}
        \ {fieldnames[i] : i \in 1..Len(fieldnames)}

\* expected_headers - actual_headers
MissingHeaders(csv_columns, fieldnames) ==
    Keys(csv_columns) \ {fieldnames[i] : i \in 1..Len(fieldnames)}

\* what a call leaves: the dict returned, the processor, the two tables
Outcome(result, self, stocks, candlesticks) ==
    [result |-> result, self |-> self, stocks |-> stocks, candlesticks |-> candlesticks]

FileFail(self, stocks, candlesticks, error) ==
    Outcome(FailureResult(self, error), self, stocks, candlesticks)

\* the processor's own fields in the loop state
Counters(done) ==
    [processed_stocks |-> done.processed_stocks,
     processed_candlesticks |-> done.processed_candlesticks,
     errors |-> done.errors, warnings |-> done.warnings]

FileDone(done, candle_date, exchange) ==
    Outcome(SuccessResult(Counters(done), candle_date, exchange), Counters(done),
            done.stocks, done.candlesticks)

\* open(), the header check, list(reader) and the row loop
FileRows(self, stocks, candlesticks, file, name, csv_columns, missing) ==
    IF ~file.readable THEN FileFail(self, stocks, candlesticks, FileExc("open", "", {}))
    ELSE IF missing # {}
    THEN FileFail(self, stocks, candlesticks,
                  FileExc("Missing required columns for exchange", "", missing))
    ELSE IF ~file.decodable
    THEN FileFail(self, stocks, candlesticks, FileExc("UnicodeDecodeError", "", {}))
    ELSE FileDone(RowLoop([stocks |-> stocks, candlesticks |-> candlesticks,
                            processed_stocks |-> self.processed_stocks,
                            processed_candlesticks |-> self.processed_candlesticks,
                            warnings |-> self.warnings, errors |-> self.errors],
                           DictRows(file), 1, name.date, name.exchange, csv_columns),
                   name.date, name.exchange)

\* the mapping check
FileMapped(self, stocks, candlesticks, file, name, csv_columns) ==
    IF csv_columns = <<>>
    THEN FileFail(self, stocks, candlesticks, FileExc("No column mapping found for exchange", "", {}))
    ELSE FileRows(self, stocks, candlesticks, file, name, csv_columns,
                  MissingHeaders(csv_columns, Fieldnames(file)))

\* self.EXCHANGE_MAPPINGS.get(exchange)
get_mapping(mappings, exchange) == IF exchange \in DOMAIN mappings THEN mappings[exchange] ELSE <<>>

\* the filename check
FileParsed(self, stocks, candlesticks, mappings, file, name) ==
    IF ~name.ok
    THEN FileFail(self, stocks, candlesticks, FileExc("Error parsing filename", name.error, {}))
    ELSE FileMapped(self, stocks, candlesticks, file, name, get_mapping(mappings, name.exchange))

\* process_csv_file(file_path, filename) on processor self with the tables as
\* they are: [result, self, stocks, candlesticks] when it returns
process_csv_file(self, stocks, candlesticks, mappings, supported, file, fname) ==
    FileParsed(ResetCounters(self), stocks, candlesticks, mappings, file,
               parse_filename(fname, supported))

(***************************************************************************)
(* BulkCSVProcessor (bulk_processor.py)                                    *)
(***************************************************************************)
\* BulkCSVProcessor.__init__, and the "Reset counters" block of process_zip_file
NewBulk == [processed_files |-> <<>>, failed_files |-> <<>>,
            total_stocks |-> 0, total_candlesticks |-> 0,
            total_files_processed |-> 0, warnings |-> <<>>, errors |-> <<>>]

\* tempfile.TemporaryDirectory(): entering the with block makes a directory
\* that did not exist, leaving it (return, exception) removes it
FreshDir(dirs) == Cardinality(dirs) + 1
MakeTempDir(dirs) == dirs \cup {FreshDir(dirs)}
\* an exit that leaves the directory behind
KeepDirectory(dirs, d) == dirs

Cleanup(dirs, d) == dirs \ {d}

\* file.lower().endswith('.csv') and not file.startswith('.')
IsCsvFile(fname) == EndsWith(Lower(fname), DOT_CSV) /\ ~StartsWith(fname, <<".">>)

\* the os.walk loop: the extracted files that pass the test, in walk order
RECURSIVE Discover(_)
Discover(entries) ==
    IF entries = <<>> THEN <<>>
    ELSE (IF IsCsvFile(entries[1].name) THEN <<entries[1]>> ELSE <<>>) \o Discover(Tail(entries))

\* the whole list, whatever n is
WholeList(seq, n) == seq

\* seq[:n]
FirstN(seq, n) == SubSeq(seq, 1, IF Len(seq) < n THEN Len(seq) ELSE n)

\* how many of a file's warnings and row errors the report repeats
ShownPerFile == 3

\* the entries self.warnings / self.errors gain from one file's list
Tagged(fname, list) == [i \in 1..Len(list) |-> [filename |-> fname, text |-> list[i]]]

\* a loop body that counts every file as processed
process_single_file_counted(b, csvfile, result, fname, save_fails) ==
    [bulk |-> [b EXCEPT !.total_files_processed = @ + 1,
                        !.total_stocks = @ + result.stocks_processed,
                        !.total_candlesticks = @ + result.candlesticks_processed,
                        !.processed_files = Append(@, [filename |-> fname])],
     csvfile |-> csvfile,
     raised |-> FALSE]

\* _process_single_file once processor.process_csv_file has returned result,
\* and the except branch of the per-file loop when it raises. save_fails:
\* CsvFile.objects.create raises (a database error).
\* [bulk, csvfile, raised]
process_single_file(b, csvfile, result, fname, save_fails) ==
    IF result.success /\ save_fails
    THEN [bulk |-> [b EXCEPT
                      !.failed_files = Append(@, [filename |-> fname,
                                                  error |-> FileExc("DatabaseError", "", {}),
                                                  stocks_processed |-> 0,
                                                  candlesticks_processed |-> 0]),
                      !.errors = Append(@, [filename |-> fname,
                                            text |-> FileExc("Failed to process", "DatabaseError", {})])],
          csvfile |-> csvfile,
          raised |-> TRUE]
    ELSE IF result.success
    THEN [bulk |-> [b EXCEPT
                      !.total_stocks = @ + result.stocks_processed,
                      !.total_candlesticks = @ + result.candlesticks_processed,
                      !.total_files_processed = @ + 1,
                      !.processed_files = Append(@, [filename |-> fname,
                                                     date |-> result.date,
                                                     exchange |-> result.exchange,
                                                     stocks_processed |-> result.stocks_processed,
                                                     candlesticks_processed |-> result.candlesticks_processed,
                                                     warnings |-> result.warnings]),
                      !.warnings = @ \o Tagged(fname, FirstN(result.warnings, ShownPerFile))],
          csvfile |-> Append(csvfile, [filename |-> fname,
                                       date |-> result.date,
                                       exchange |-> result.exchange,
                                       stocks_processed |-> result.stocks_processed,
                                       candlesticks_processed |-> result.candlesticks_processed]),
          raised |-> FALSE]
    ELSE [bulk |-> [b EXCEPT
                      !.failed_files = Append(@, [filename |-> fname,
                                                  error |-> result.error,
                                                  stocks_processed |-> result.stocks_processed,
                                                  candlesticks_processed |-> result.candlesticks_processed]),
                      !.errors = (@ \o <<[filename |-> fname, text |-> result.error]>>)
                                 \o Tagged(fname, FirstN(result.errors, ShownPerFile))],
          csvfile |-> csvfile,
          raised |-> FALSE]

\* the dict returned when no CSV file was found
NoCsvResult(zip_filename) ==
    [success |-> FALSE,
     error |-> FileExc("No CSV files found in ZIP archive", zip_filename, {}),
     processed_files |-> <<>>, failed_files |-> <<>>,
     total_files_processed |-> 0, total_stocks |-> 0, total_candlesticks |-> 0,
     warnings |-> <<>>,
     errors |-> <<[filename |-> <<>>,
                   text |-> FileExc("No CSV files found in ZIP archive", "", {})]>>]

\* a summary that reports success only when no file failed
SummaryResultStrict(b) ==
    [success |-> b.failed_files = <<>>,
     processed_files |-> b.processed_files, failed_files |-> b.failed_files,
     total_files_processed |-> b.total_files_processed,
     total_files_failed |-> Len(b.failed_files),
     total_stocks |-> b.total_stocks, total_candlesticks |-> b.total_candlesticks,
     warnings |-> b.warnings, errors |-> b.errors]

\* the dict returned after the per-file loop
SummaryResult(b) ==
    [success |-> TRUE,
     processed_files |-> b.processed_files, failed_files |-> b.failed_files,
     total_files_processed |-> b.total_files_processed,
     total_files_failed |-> Len(b.failed_files),
     total_stocks |-> b.total_stocks, total_candlesticks |-> b.total_candlesticks,
     warnings |-> b.warnings, errors |-> b.errors]

\* the dict returned by the outer except branch
CriticalResult(b, zip_filename, e) ==
    [success |-> FALSE,
     error |-> FileExc("Failed to process ZIP file", zip_filename, {}),
     processed_files |-> b.processed_files, failed_files |-> b.failed_files,
     total_files_processed |-> b.total_files_processed,
     total_files_failed |-> Len(b.failed_files),
     total_stocks |-> b.total_stocks, total_candlesticks |-> b.total_candlesticks,
     warnings |-> b.warnings,
     errors |-> Append(b.errors, [filename |-> <<>>,
                                  text |-> FileExc("ZIP processing error", e, {})])]

(***************************************************************************)
(* The inputs the model draws from                                         *)
(***************************************************************************)
(* The single-file upload view (views.py) and its form (forms.py)          *)
(***************************************************************************)
FormMaxExchangeLen == 10

IsLetter(c) == c \in DOMAIN ToUpper \cup DOMAIN ToLower

\* re.match(r'^(\d{8})_([A-Z]+)\.csv$', name, re.IGNORECASE)
MatchesPattern(name) ==
    /\ Len(name) > DateLen + 1 + Len(DOT_CSV)
    /\ \A i \in 1..DateLen : IsDigit(name[i])
    /\ name[DateLen + 1] = "_"
    /\ \A i \in (DateLen + 2)..(Len(name) - Len(DOT_CSV)) : IsLetter(name[i])
    /\ Lower(SubSeq(name, Len(name) - Len(DOT_CSV) + 1, Len(name))) = DOT_CSV

\* StockDataUploadForm.clean_file on the name of a file below the size limit
clean_file(name) ==
    /\ EndsWith(Lower(name), DOT_CSV)
    /\ MatchesPattern(name)
    /\ strptime(SubSeq(name, 1, DateLen)).ok
    /\ Len(name) - Len(DOT_CSV) - DateLen - 1 <= FormMaxExchangeLen

\* the view that saves no record
handle_single_file_upload_unrecorded(csvfile, result, fname, save_fails) ==
    [csvfile |-> csvfile, raised |-> result.success /\ save_fails]

\* _handle_single_file_upload after the engine call: the record saved on
\* success; raised when CsvFile.objects.create raises
handle_single_file_upload(csvfile, result, fname, save_fails) ==
    IF result.success /\ ~save_fails
    THEN [csvfile |-> Append(csvfile, [filename |-> fname,
                                       date |-> result.date,
                                       exchange |-> result.exchange,
                                       stocks_processed |-> result.stocks_processed,
                                       candlesticks_processed |-> result.candlesticks_processed]),
          raised |-> FALSE]
    ELSE [csvfile |-> csvfile, raised |-> result.success /\ save_fails]

(***************************************************************************)
(* CandlestickForm.clean (stock_forms.py)                                  *)
(* cleaned_data: [open_price, high_price, low_price, close_price, stock,   *)
(* candle_date, instance_pk]; a field that failed its own validation is    *)
(* None, as cleaned_data.get returns it; stock is the Stock's id.          *)
(***************************************************************************)
DecimalPlaces == 4

Pow10 == <<1, 10, 100, 1000, 10000>>

\* a finite Decimal of at most four decimal places in units of 0.0001
Scaled(d) == (IF d.neg THEN 0 - d.coef ELSE d.coef) * Pow10[DecimalPlaces + d.exp + 1]

Max3(a, b, c) == IF a >= b /\ a >= c THEN a ELSE IF b >= c THEN b ELSE c
Min3(a, b, c) == IF a <= b /\ a <= c THEN a ELSE IF b <= c THEN b ELSE c

\* bool(x) of a cleaned price: None and a Decimal equal to zero are false
Truthy(x) == ~x.isNone /\ x.v.coef # 0

\* all([open_price, high_price, low_price, close_price])
AllPrices(data) ==
    /\ Truthy(data.open_price) /\ Truthy(data.high_price)
    /\ Truthy(data.low_price) /\ Truthy(data.close_price)

HighBelowOthers(data) ==
    Scaled(data.high_price.v)
        < Max3(Scaled(data.open_price.v), Scaled(data.low_price.v), Scaled(data.close_price.v))
LowAboveOthers(data) ==
    Scaled(data.low_price.v)
        > Min3(Scaled(data.open_price.v), Scaled(data.high_price.v), Scaled(data.close_price.v))

\* Candlestick.objects.filter(stock, candle_date), without the instance edited
ExistingCandles(data, candlesticks) ==
    {c \in candlesticks :
        /\ c.stock = data.stock.v
        /\ c.candle_date = data.candle_date.v
        /\ data.instance_pk.isNone \/ c.candle_id # data.instance_pk.v}

\* CandlestickForm.clean: the message of the ValidationError raised, "" if none
clean(data, candlesticks) ==
    IF AllPrices(data) /\ HighBelowOthers(data)
    THEN "High price must be greater than or equal to all other prices."
    ELSE IF AllPrices(data) /\ LowAboveOthers(data)
    THEN "Low price must be less than or equal to all other prices."
    ELSE IF /\ ~data.stock.isNone
            /\ ~data.candle_date.isNone
            /\ ExistingCandles(data, candlesticks) # {}
    THEN "Candlestick data already exists."
    ELSE ""

(***************************************************************************)
MaxRows == 2         \* data rows in a file
MaxEntries == 2      \* files in an archive
MaxCalls == 2        \* process_csv_file and process_zip_file calls in a run

\* dates as they appear in file names
D_20250101 == <<"2","0","2","5","0","1","0","1">>
D_20250102 == <<"2","0","2","5","0","1","0","2">>
D_20240229 == <<"2","0","2","4","0","2","2","9">>
D_20250229 == <<"2","0","2","5","0","2","2","9">>
D_20251301 == <<"2","0","2","5","1","3","0","1">>
D_00000101 == <<"0","0","0","0","0","1","0","1">>
D_2025011 == <<"2","0","2","5","0","1","1">>
D_202511_1 == <<"2","0","2","5","1","1"," ","1">>
D_2025010a == <<"2","0","2","5","0","1","0","a">>

XYZ == <<"X", "Y", "Z">>
LONG_CODE == <<"L","O","N","G","E","X","C","H","A","N","G">>
EXT_csv == DOT_CSV
EXT_CSV == DOT_CSV_UPPER
EXT_Csv == <<".", "C", "s", "v">>

FileName(date, exchange, ext) == date \o <<"_">> \o exchange \o ext

\* the date parts, exchange parts and extensions of the names parsed
PARSE_DATES ==
    {D_20250101, D_20240229, D_20250229, D_20251301, D_00000101, D_2025011, D_202511_1,
     D_2025010a}
EXCHANGE_PARTS == {BSE, <<"N","s","e">>, XYZ, Lower(XYZ), LONG_CODE, <<>>}
EXTENSIONS == {EXT_csv, EXT_CSV, EXT_Csv, EXT_csv \o EXT_csv, <<>>}

FILE_NAMES ==
    {FileName(d, x, e) : d \in PARSE_DATES, x \in EXCHANGE_PARTS, e \in EXTENSIONS}
    \cup {D_20250101 \o EXT_csv,
          FileName(D_20250101, BSE \o <<"_">> \o NSE, EXT_csv),
          FileName(<<"i","n","v","a","l","i","d">>, <<"f","o","r","m","a","t">>, EXT_csv)}

\* a mapping for an exchange added at run time
XYZ_MAPPING ==
    << <<"TICKER", "stock_symbol">>, <<"COMPANY", "stock_name">>,
       <<"O", "open_price">>, <<"H", "high_price">>, <<"L", "low_price">>,
       <<"C", "close_price">>, <<"PC", "prev_close_price">> >>

REGISTERED_NAMES == {Lower(XYZ), <<"B","s","e">>}
REGISTERED_MAPPINGS == {XYZ_MAPPING}

\* cell values
V_10 == <<"1","0">>
V_11 == <<"1","1">>
V_12 == <<"1","2">>
V_9 == <<"9">>
V_5 == <<"5">>
V_10_5 == <<"1","0",".","5">>
V_1500_0 == <<"1","5","0","0",".","0">>
V_EMPTY == <<>>
V_INVALID == <<"I","N","V","A","L","I","D">>
V_INF == <<"i","n","f">>
SYM1 == <<"5","0","0","3","2","5">>
SYM2 == <<"T","C","S">>
NAME1 == <<"R","E","L">>
NAME2 == <<"T","A","T","A">>
NAME_COMMA == <<"R",",","L">>

\* what varies between the rows of the model:
\* [symbol, name, group, open, prev, trades]
ROW_KINDS ==
    { [symbol |-> SYM1, name |-> NAME1, group |-> <<"A">>, open |-> V_10, prev |-> V_10, trades |-> V_5],
      [symbol |-> SYM1, name |-> NAME2, group |-> <<"B">>, open |-> V_11, prev |-> V_9, trades |-> V_EMPTY],
      [symbol |-> SYM2, name |-> NAME2, group |-> <<"B">>, open |-> V_10, prev |-> V_10, trades |-> V_INVALID],
      [symbol |-> SYM2, name |-> NAME1, group |-> <<"A">>, open |-> V_INVALID, prev |-> V_10, trades |-> V_5],
      [symbol |-> V_EMPTY, name |-> NAME1, group |-> <<"A">>, open |-> V_10, prev |-> V_10, trades |-> V_5] }

BSE_HEADER == [i \in 1..Len(BSE_MAPPING) |-> BSE_MAPPING[i][1]]
NSE_HEADER == [i \in 1..Len(NSE_MAPPING) |-> NSE_MAPPING[i][1]]

\* a line of a BSE file and of an NSE file, cells in header order
BseLine(k) ==
    <<k.symbol, k.name, k.group, <<"Q">>, k.open, V_12, V_9, V_10, V_10, k.prev,
      k.trades, V_1500_0, V_10_5, V_EMPTY>>
NseLine(k) ==
    <<k.symbol, k.group, k.open, V_12, V_9, V_10, V_10, k.prev,
      V_1500_0, V_10_5, <<"0","1","-","J","A","N">>, k.trades, <<"I","N","E">> >>

RowSeqs(n) == UNION {[1..m -> ROW_KINDS] : m \in 0..n}

CsvFileOf(fname, readable, delimiter, header, rows) ==
    [name |-> fname, readable |-> readable, decodable |-> TRUE, delimiter |-> delimiter,
     header |-> header, rows |-> rows]

BseFile(fname, kinds) ==
    CsvFileOf(fname, TRUE, COMMA, BSE_HEADER, [i \in 1..Len(kinds) |-> BseLine(kinds[i])])
NseFile(fname, kinds) ==
    CsvFileOf(fname, TRUE, COMMA, NSE_HEADER, [i \in 1..Len(kinds) |-> NseLine(kinds[i])])

ValidKind == CHOOSE k \in ROW_KINDS : k.symbol = SYM1 /\ k.open = V_10
OtherKind == CHOOSE k \in ROW_KINDS : k.symbol = SYM2 /\ k.open = V_10

\* well-named BSE files: every combination of rows for one day, one file
\* for the day after
GoodBseFiles ==
    {BseFile(FileName(D_20250101, BSE, EXT_csv), kinds) : kinds \in RowSeqs(MaxRows)}
    \cup {BseFile(FileName(D_20250102, BSE, EXT_csv), <<ValidKind>>)}

\* well-named NSE files of one row
GoodNseFiles ==
    {NseFile(FileName(D_20250101, NSE, EXT_csv), <<k>>) : k \in ROW_KINDS}

\* files the engine cannot process as a whole, and files that differ from
\* the good ones only in layout
OddFiles ==
    { \* an extra column before the required ones
      CsvFileOf(FileName(D_20250101, BSE, EXT_csv), TRUE, COMMA,
                <<"EXTRA">> \o BSE_HEADER, << <<V_5>> \o BseLine(ValidKind) >>),
      \* the ignored column TDCLOINDI is missing
      CsvFileOf(FileName(D_20250101, BSE, EXT_csv), TRUE, COMMA,
                SubSeq(BSE_HEADER, 1, Len(BSE_HEADER) - 1),
                << SubSeq(BseLine(ValidKind), 1, Len(BSE_HEADER) - 1) >>),
      \* completely wrong headers: a BSE file under an NSE name
      BseFile(FileName(D_20250101, NSE, EXT_csv), <<ValidKind>>),
      \* an unregistered exchange in the name
      BseFile(FileName(D_20250101, XYZ, EXT_csv), <<ValidKind>>),
      \* the file cannot be opened
      CsvFileOf(FileName(D_20250101, BSE, EXT_csv), FALSE, COMMA,
                BSE_HEADER, << BseLine(ValidKind) >>),
      \* a byte that is not UTF-8 far down the file
      [BseFile(FileName(D_20250101, BSE, EXT_csv), <<ValidKind>>) EXCEPT !.decodable = FALSE],
      \* tab-delimited
      CsvFileOf(FileName(D_20250101, BSE, EXT_csv), TRUE, TAB,
                BSE_HEADER, << BseLine(OtherKind) >>),
      \* tab-delimited, a comma in a company name
      CsvFileOf(FileName(D_20250101, BSE, EXT_csv), TRUE, TAB,
                BSE_HEADER, << BseLine([ValidKind EXCEPT !.name = NAME_COMMA]) >>),
      \* NO_TRADES is inf in a row that is valid otherwise
      BseFile(FileName(D_20250101, BSE, EXT_csv), <<[ValidKind EXCEPT !.trades = V_INF]>>) }

FILES == GoodBseFiles \cup GoodNseFiles \cup OddFiles

\* what a CandlestickForm is submitted with
DecimalOfInt(n) == [kind |-> "finite", neg |-> FALSE, coef |-> n, exp |-> 0]
FORM_PRICES == {Some(DecimalOfInt(n)) : n \in 0..2}
FORM_DATA ==
    [open_price : FORM_PRICES \cup {NoneVal}, high_price : FORM_PRICES,
     low_price : FORM_PRICES, close_price : FORM_PRICES,
     stock : {NoneVal, Some(1)},
     candle_date : {NoneVal, Some([year |-> 2025, month |-> 1, day |-> 1])},
     instance_pk : {NoneVal, Some(1)}]

\* a file whose row has an opening price above its high
FORM_FILES ==
    {BseFile(FileName(D_20250101, BSE, EXT_csv), <<[ValidKind EXCEPT !.open = V_1500_0]>>)}

\* the files uploaded through the form
UPLOAD_FILES ==
    { BseFile(FileName(D_20250101, BSE, EXT_csv), <<ValidKind>>),
      NseFile(FileName(D_20250101, NSE, EXT_csv), <<OtherKind>>),
      BseFile(FileName(D_20250101, NSE, EXT_csv), <<ValidKind>>),
      BseFile(FileName(D_20250101, BSE, EXT_Csv), <<ValidKind>>) }

\* an exchange added at run time: the codes registered, and files in the
\* layout of XYZ_MAPPING named after them
REGISTRY_CODES == {Lower(XYZ), XYZ, LONG_CODE}
\* the mappings they are registered with: the layout above, and an empty dict
REGISTRY_MAPPINGS == {XYZ_MAPPING, <<>>}

XyzLine(k) == <<k.symbol, k.name, k.open, V_12, V_9, V_10, k.prev>>
XyzFile(fname, kinds) ==
    CsvFileOf(fname, TRUE, COMMA, KeyList(XYZ_MAPPING),
              [i \in 1..Len(kinds) |-> XyzLine(kinds[i])])

REGISTRY_FILES ==
    {XyzFile(FileName(D_20250101, code, EXT_csv), kinds) :
        code \in {XYZ, Lower(XYZ), LONG_CODE},
        kinds \in {<<ValidKind>>, <<ValidKind, OtherKind>>}}
    \cup {XyzFile(FileName(D_20250101, XYZ, EXT_csv),
                  <<CHOOSE k \in ROW_KINDS : k.open = V_INVALID>>),
          BseFile(FileName(D_20250101, BSE, EXT_csv), <<ValidKind>>)}

\* what an archive may hold besides CSV files the engine accepts
ARCHIVE_ENTRIES ==
    { BseFile(FileName(D_20250101, BSE, EXT_csv), <<ValidKind>>),
      BseFile(FileName(D_20250102, BSE, EXT_csv), <<ValidKind, OtherKind>>),
      \* four warnings (two invalid NO_TRADES, a duplicate, an invalid OPEN)
      \* and a row error
      BseFile(FileName(D_20250102, BSE, EXT_csv),
              <<OtherKind, OtherKind, CHOOSE k \in ROW_KINDS : k.open = V_INVALID>>),
      BseFile(FileName(D_20250101, BSE, EXT_csv),
              <<CHOOSE k \in ROW_KINDS : k.open = V_INVALID>>),
      BseFile(FileName(D_20250101, NSE, EXT_csv), <<ValidKind>>),
      BseFile(<<".">> \o FileName(D_20250101, BSE, EXT_csv), <<ValidKind>>),
      CsvFileOf(<<"r","e","a","d","m","e",".","t","x","t">>, TRUE, COMMA, <<>>, <<>>) }

\* an uploaded archive: [name, bad, entries]; bad when ZipFile() or
\* extractall() raises
ARCHIVES ==
    {[name |-> "data.zip", bad |-> FALSE, entries |-> e] :
        e \in UNION {[1..m -> ARCHIVE_ENTRIES] : m \in 0..MaxEntries}}
    \cup {[name |-> "broken.zip", bad |-> TRUE, entries |-> <<>>]}

(***************************************************************************)
(* The state machine                                                       *)
(***************************************************************************)
Init ==
    /\ EXCHANGE_MAPPINGS = [c \in {BSE, NSE} |-> IF c = BSE THEN BSE_MAPPING ELSE NSE_MAPPING]
    /\ SUPPORTED_EXCHANGES = <<BSE, NSE>>
    /\ filename = <<>>
    /\ parsed = <<>>
    /\ stock_table = {}
    /\ candlestick_table = {}
    /\ csvfile_table = <<>>
    /\ processor = NewProcessor
    /\ heap = init_lists(<<>>).heap
    /\ lists = init_lists(<<>>).refs
    /\ runs = <<>>
    /\ calls = 0
    /\ pc = "idle"
    /\ bulk = NewBulk
    /\ csv_files = <<>>
    /\ file_index = 0
    /\ zip_file = [name |-> "", bad |-> FALSE, entries |-> <<>>]
    /\ zip_call = 0
    /\ temp_dirs = {}
    /\ temp_dir = 0
    /\ zip_result = <<>>
    /\ cleaned_data = <<>>
    /\ validation_error = ""

\* one entry of the history of engine calls
\* path: who called the engine ("direct", "archive" or "upload");
\* refs: the list objects the result's errors and warnings are
Run(file, r, before_stocks, before_candlesticks, call, raised, path, refs) ==
    [file |-> file, result |-> r.result,
     stocks_before |-> before_stocks, candlesticks_before |-> before_candlesticks,
     stocks |-> r.stocks, candlesticks |-> r.candlesticks,
     call |-> call, raised |-> raised, path |-> path, refs |-> refs]

\* processor.process_csv_file(path, name) called directly, as the test
\* scripts do, on the processor in use
ProcessCsvFile(file) ==
    /\ pc = "idle"
    /\ calls < MaxCalls
    /\ calls' = calls + 1
    /\ \E r \in {process_csv_file(processor, stock_table, candlestick_table,
                                  EXCHANGE_MAPPINGS, SUPPORTED_EXCHANGES, file, file.name)} :
       \E a \in {Filled(reset_lists(heap, lists), r.result)} :
           /\ processor' = r.self
           /\ heap' = a.heap
           /\ lists' = a.refs
           /\ stock_table' = r.stocks
           /\ candlestick_table' = r.candlesticks
           /\ runs' = Append(runs, Run(file, r, stock_table, candlestick_table, calls + 1, FALSE,
                                         "direct", a.refs))
    /\ UNCHANGED <<formvars, regvars, parsevars, csvfile_table, zipvars>>

\* process_zip_file up to the per-file loop: reset, extract, discover
ZipBegin(zip) ==
    /\ pc = "idle"
    /\ calls < MaxCalls
    /\ calls' = calls + 1
    /\ zip_file' = zip
    /\ zip_call' = calls + 1
    /\ bulk' = NewBulk
    /\ temp_dir' = FreshDir(temp_dirs)
    /\ file_index' = 0
    /\ IF zip.bad
       THEN /\ temp_dirs' = Cleanup(MakeTempDir(temp_dirs), temp_dir')
            /\ zip_result' = <<CriticalResult(bulk', zip.name, "BadZipFile")>>
            /\ csv_files' = <<>>
            /\ UNCHANGED <<formvars, pc, processor, heap, lists>>
       ELSE IF Discover(zip.entries) = <<>>
       THEN /\ temp_dirs' = Cleanup(MakeTempDir(temp_dirs), temp_dir')
            /\ zip_result' = <<NoCsvResult(zip.name)>>
            /\ csv_files' = <<>>
            /\ UNCHANGED <<formvars, pc, processor, heap, lists>>
       ELSE /\ temp_dirs' = MakeTempDir(temp_dirs)
            /\ zip_result' = <<>>
            /\ csv_files' = Discover(zip.entries)
            /\ processor' = NewProcessor
            /\ heap' = init_lists(heap).heap
            /\ lists' = init_lists(heap).refs
            /\ pc' = "loop"
    /\ UNCHANGED <<formvars, regvars, parsevars, storevars, runs>>

\* a turn whose except branch lists nothing for the file that raised
ZipFileStepUnlisted(save_fails) ==
    /\ pc = "loop"
    /\ file_index < Len(csv_files)
    /\ \E file \in {csv_files[file_index + 1]} :
       \E r \in {process_csv_file(processor, stock_table, candlestick_table,
                                  EXCHANGE_MAPPINGS, SUPPORTED_EXCHANGES, file, file.name)} :
       \E p \in {process_single_file(bulk, csvfile_table, r.result, file.name, save_fails)} :
       \E a \in {Filled(reset_lists(heap, lists), r.result)} :
           /\ save_fails => r.result.success
           /\ processor' = r.self
           /\ heap' = a.heap
           /\ lists' = a.refs
           /\ stock_table' = r.stocks
           /\ candlestick_table' = r.candlesticks
           /\ bulk' = IF p.raised THEN bulk ELSE p.bulk
           /\ csvfile_table' = p.csvfile
           /\ runs' = Append(runs, Run(file, r, stock_table, candlestick_table, calls, p.raised,
                                         "archive", a.refs))
    /\ file_index' = file_index + 1
    /\ UNCHANGED <<formvars, regvars, parsevars, calls, pc, csv_files, zip_file, zip_call, temp_dirs,
                   temp_dir, zip_result>>

\* one turn of the per-file loop: _process_single_file on the next file
ZipFileStep(save_fails) ==
    /\ pc = "loop"
    /\ file_index < Len(csv_files)
    /\ \E file \in {csv_files[file_index + 1]} :
       \E r \in {process_csv_file(processor, stock_table, candlestick_table,
                                  EXCHANGE_MAPPINGS, SUPPORTED_EXCHANGES, file, file.name)} :
       \E p \in {process_single_file(bulk, csvfile_table, r.result, file.name, save_fails)} :
       \E a \in {Filled(reset_lists(heap, lists), r.result)} :
           /\ save_fails => r.result.success
           /\ processor' = r.self
           /\ heap' = a.heap
           /\ lists' = a.refs
           /\ stock_table' = r.stocks
           /\ candlestick_table' = r.candlesticks
           /\ bulk' = p.bulk
           /\ csvfile_table' = p.csvfile
           /\ runs' = Append(runs, Run(file, r, stock_table, candlestick_table, calls, p.raised,
                                         "archive", a.refs))
    /\ file_index' = file_index + 1
    /\ UNCHANGED <<formvars, regvars, parsevars, calls, pc, csv_files, zip_file, zip_call, temp_dirs,
                   temp_dir, zip_result>>

\* the loop is over: the with block ends, the summary is returned
ZipEnd ==
    /\ pc = "loop"
    /\ file_index = Len(csv_files)
    /\ temp_dirs' = Cleanup(temp_dirs, temp_dir)
    /\ zip_result' = <<SummaryResult(bulk)>>
    /\ pc' = "idle"
    /\ UNCHANGED <<formvars, regvars, parsevars, storevars, enginevars, calls, bulk, csv_files,
                   file_index, zip_file, zip_call, temp_dir>>

\* _handle_single_file_upload: the form accepts the file, a new processor
\* ingests it, and the record is saved when the result is a success
UploadSingleFile(file, save_fails) ==
    /\ pc = "idle"
    /\ calls < MaxCalls
    /\ clean_file(file.name)
    /\ calls' = calls + 1
    /\ \E r \in {process_csv_file(NewProcessor, stock_table, candlestick_table,
                                  EXCHANGE_MAPPINGS, SUPPORTED_EXCHANGES, file, file.name)} :
       \E v \in {handle_single_file_upload(csvfile_table, r.result, file.name, save_fails)} :
       \E made \in {init_lists(heap)} :
       \E a \in {Filled(reset_lists(made.heap, made.refs), r.result)} :
           /\ save_fails => r.result.success
           /\ heap' = a.heap
           /\ stock_table' = r.stocks
           /\ candlestick_table' = r.candlesticks
           /\ csvfile_table' = v.csvfile
           /\ runs' = Append(runs, Run(file, r, stock_table, candlestick_table, calls + 1,
                                      v.raised, "upload", a.refs))
    /\ UNCHANGED <<formvars, regvars, parsevars, processor, lists, zipvars>>

\* a CandlestickForm is validated: clean() on its cleaned_data
CandlestickFormClean(data) ==
    /\ cleaned_data' = <<data>>
    /\ validation_error' = clean(data, candlestick_table)
    /\ UNCHANGED <<regvars, parsevars, storevars, enginevars, calls, zipvars>>

\* processor.parse_filename(fname)
ParseFilename(fname) ==
    /\ filename' = fname
    /\ parsed' = <<[result |-> parse_filename(fname, SUPPORTED_EXCHANGES),
                    supported |-> SUPPORTED_EXCHANGES]>>
    /\ UNCHANGED <<formvars, regvars, storevars, enginevars, calls, zipvars>>

\* CSVProcessor.add_exchange_support(exchange_name, column_mapping)
AddExchangeSupport(exchange_name, column_mapping) ==
    /\ add_exchange_support(exchange_name, column_mapping)
    /\ UNCHANGED <<formvars, parsevars, storevars, enginevars, calls, zipvars>>

Next ==
    \/ \E file \in FILES : ProcessCsvFile(file)
    \/ \E zip \in ARCHIVES : ZipBegin(zip)
    \/ \E save_fails \in BOOLEAN : ZipFileStep(save_fails)
    \/ ZipEnd
    \/ \E file \in UPLOAD_FILES, save_fails \in BOOLEAN : UploadSingleFile(file, save_fails)

Spec == Init /\ [][Next]_vars

\* the filename parser and the registry on their own
NextParse ==
    \/ \E fname \in FILE_NAMES : ParseFilename(fname)
    \/ \E exchange_name \in REGISTERED_NAMES, column_mapping \in REGISTERED_MAPPINGS :
           AddExchangeSupport(exchange_name, column_mapping)

SpecParse == Init /\ [][NextParse]_vars

\* the engine under a registry that grows at run time
NextRegistry ==
    \/ \E exchange_name \in REGISTRY_CODES, column_mapping \in REGISTRY_MAPPINGS :
           AddExchangeSupport(exchange_name, column_mapping)
    \/ \E file \in REGISTRY_FILES : ProcessCsvFile(file)

SpecRegistry == Init /\ [][NextRegistry]_vars

\* the candlestick form next to the CSV engine
NextForm ==
    \/ \E data \in FORM_DATA : CandlestickFormClean(data)
    \/ \E file \in FORM_FILES : ProcessCsvFile(file)

SpecForm == Init /\ [][NextForm]_vars

(***************************************************************************)
(* The claims                                                              *)
(***************************************************************************)
\* the date a text of eight digits writes as YYYYMMDD
DateWritten(d) ==
    [year |-> NumVal(d, 1, 4), month |-> NumVal(d, 5, 6), day |-> NumVal(d, 7, 8)]

IsCalendarDate(d) ==
    /\ Len(d) = 8
    /\ \A i \in 1..Len(d) : d[i] \in DOMAIN DigitValue
    /\ DateWritten(d).year >= 1
    /\ DateWritten(d).month \in 1..12
    /\ DateWritten(d).day \in 1..DaysInMonth(DateWritten(d).year, DateWritten(d).month)

\* the parts of a name: what is left of it without the extension, split
\* at the underscores
NameParts(fname) == Split(name_without_ext(fname), "_")

WellFormedName(parts, supported) ==
    /\ Len(parts) = 2
    /\ IsCalendarDate(parts[1])
    /\ Len(parts[2]) \in 1..10
    /\ \E i \in 1..Len(supported) : supported[i] = Upper(parts[2])

\* C1: parse_filename returns exactly (the date, the upper-cased exchange)
\* for a name whose two parts are a calendar date YYYYMMDD and a registered
\* exchange of 1-10 characters, and raises for every other name: another part
\* count, a date part that is not 8 characters or not a calendar date, an
\* empty or over-long exchange part, an unregistered exchange.
C1_ParseContract ==
    parsed # <<>> =>
        IF WellFormedName(NameParts(filename), parsed[1].supported)
        THEN parsed[1].result = [ok |-> TRUE,
                                 date |-> DateWritten(NameParts(filename)[1]),
                                 exchange |-> Upper(NameParts(filename)[2])]
        ELSE ~parsed[1].result.ok

\* the rows of the model by what the engine is to make of them
VALID_KINDS == {k \in ROW_KINDS : k.symbol # <<>> /\ k.open # V_INVALID}
BAD_PRICE_KINDS == {k \in ROW_KINDS : k.symbol # <<>> /\ k.open = V_INVALID}
ValidLines == {BseLine(k) : k \in VALID_KINDS} \cup {NseLine(k) : k \in VALID_KINDS}
BadPriceLines == {BseLine(k) : k \in BAD_PRICE_KINDS} \cup {NseLine(k) : k \in BAD_PRICE_KINDS}
FailingLines ==
    {BseLine(k) : k \in ROW_KINDS \ VALID_KINDS} \cup {NseLine(k) : k \in ROW_KINDS \ VALID_KINDS}

\* the lines of a file that are of a given sort
LinesIn(file, lines) == {j \in 1..Len(file.rows) : file.rows[j] \in lines}

\* the data rows a result has an error for (row n of errors is line n)
ErrorRows(result) == {result.errors[e].row - 1 : e \in 1..Len(result.errors)}

DuplicateWarnings(warnings) ==
    Cardinality({w \in 1..Len(warnings) : warnings[w].kind = "Duplicate candlestick data"})

\* what the engine decides on before it reads a row
NameParses(file) == parse_filename(file.name, SUPPORTED_EXCHANGES).ok
MappingOf(file) ==
    get_mapping(EXCHANGE_MAPPINGS, parse_filename(file.name, SUPPORTED_EXCHANGES).exchange)
MappingResolves(file) == NameParses(file) /\ MappingOf(file) # <<>>
MissingColumns(file) == Keys(MappingOf(file)) \ {file.header[i] : i \in 1..Len(file.header)}
HeadersValidate(file) ==
    /\ MappingResolves(file)
    /\ file.readable
    /\ ReadsAsWritten(file)
    /\ MissingColumns(file) = {}

\* C2: a second run of process_csv_file on the same file against the store
\* the first run left reports no new stock and no new candlestick, has one
\* duplicate warning for every row the first run processed without error,
\* and leaves both tables as the first run left them.
C2_Reingestion ==
    \A i \in 1..(Len(runs) - 1) :
        runs[i + 1].file = runs[i].file =>
            /\ runs[i + 1].result.stocks_processed = 0
            /\ runs[i + 1].result.candlesticks_processed = 0
            /\ runs[i + 1].stocks = runs[i].stocks
            /\ runs[i + 1].candlesticks = runs[i].candlesticks
            /\ runs[i].result.success =>
                  /\ runs[i + 1].result.success
                  /\ ErrorRows(runs[i + 1].result) = ErrorRows(runs[i].result)
                  /\ DuplicateWarnings(runs[i + 1].result.warnings)
                        = Len(runs[i].file.rows) - Len(runs[i].result.errors)

\* a file that created candlesticks and had a failing row was run twice
C2_Witness ==
    \E i \in 1..(Len(runs) - 1) :
        /\ runs[i + 1].file = runs[i].file
        /\ runs[i].result.candlesticks_processed > 0
        /\ Len(runs[i].result.errors) > 0
        /\ DuplicateWarnings(runs[i + 1].result.warnings) > 0

\* C3: a file with a valid name and valid headers whose rows are N valid rows
\* with distinct symbols new to the store and M rows with an unparseable
\* required price, in any order, gives success, one error for each of the M
\* rows and for no other, and counts of N stocks and N candlesticks.
C3_RowIsolation ==
    \A i \in 1..Len(runs) :
        LET file == runs[i].file
            valid == LinesIn(file, ValidLines)
            bad == LinesIn(file, BadPriceLines)
        IN  ( /\ file \in GoodBseFiles \cup GoodNseFiles
              /\ valid \cup bad = 1..Len(file.rows)
              /\ \A j, k \in valid : j # k => file.rows[j][1] # file.rows[k][1]
              /\ \A j \in valid :
                    \A st \in runs[i].stocks_before : st.stock_symbol # file.rows[j][1] )
            => /\ runs[i].result.success
               /\ Len(runs[i].result.errors) = Cardinality(bad)
               /\ ErrorRows(runs[i].result) = bad
               /\ runs[i].result.stocks_processed = Cardinality(valid)
               /\ runs[i].result.candlesticks_processed = Cardinality(valid)

\* a failing row came first and the valid row after it was ingested
C3_Witness ==
    \E i \in 1..Len(runs) :
        /\ runs[i].file \in GoodBseFiles
        /\ Len(runs[i].file.rows) = 2
        /\ runs[i].file.rows[1] \in BadPriceLines
        /\ runs[i].file.rows[2] \in ValidLines
        /\ ErrorRows(runs[i].result) = {1}
        /\ runs[i].result.stocks_processed = 1
        /\ runs[i].result.candlesticks_processed = 1

\* process_zip_file has returned
ZipReturned == pc = "idle" /\ zip_result # <<>>

\* the engine calls of the last process_zip_file call, in order
ZipRuns == SelectSeq(runs, LAMBDA r : r.call = zip_call)

\* a run that went wrong, and what failed_files is to say of it
RunFailed(r) == r.raised \/ ~r.result.success
FailureOf(r) ==
    IF r.raised
    THEN [filename |-> r.file.name, error |-> FileExc("DatabaseError", "", {}),
          stocks_processed |-> 0, candlesticks_processed |-> 0]
    ELSE [filename |-> r.file.name, error |-> r.result.error,
          stocks_processed |-> r.result.stocks_processed,
          candlesticks_processed |-> r.result.candlesticks_processed]

WrongHeaders(r) ==
    /\ ~r.result.success
    /\ r.result.error.msg = "Missing required columns for exchange"

\* C4: every discovered file is processed, in order; each one whose engine
\* result is a failure or whose processing raised is in failed_files with its
\* error, in order; and of two files, one well formed and one with wrong
\* headers, one counts as processed and one as failed, the totals being the
\* well-formed file's counts.
C4_BatchIsolation ==
    (ZipReturned /\ ~zip_file.bad /\ Discover(zip_file.entries) # <<>>) =>
        /\ Len(ZipRuns) = Len(Discover(zip_file.entries))
        /\ \A i \in 1..Len(ZipRuns) : ZipRuns[i].file = Discover(zip_file.entries)[i]
        /\ zip_result[1].failed_files
              = [j \in 1..Len(SelectSeq(ZipRuns, RunFailed)) |->
                    FailureOf(SelectSeq(ZipRuns, RunFailed)[j])]
        /\ \A good, wrong \in 1..Len(ZipRuns) :
              ( /\ Len(ZipRuns) = 2
                /\ ~RunFailed(ZipRuns[good])
                /\ WrongHeaders(ZipRuns[wrong]) )
              => /\ zip_result[1].total_files_processed = 1
                 /\ zip_result[1].total_files_failed = 1
                 /\ zip_result[1].total_stocks = ZipRuns[good].result.stocks_processed
                 /\ zip_result[1].total_candlesticks
                       = ZipRuns[good].result.candlesticks_processed

\* the file with wrong headers came first, the well-formed file after it
\* added a stock
C4_Witness ==
    /\ ZipReturned
    /\ Len(ZipRuns) = 2
    /\ WrongHeaders(ZipRuns[1])
    /\ ~RunFailed(ZipRuns[2])
    /\ zip_result[1].total_stocks = 1
    /\ zip_result[1].total_files_failed = 1

\* the column of a run's file that the exchange's mapping sends to a field
ColumnOf(r, db_field) == MappedColumn(EXCHANGE_MAPPINGS[r.result.exchange], db_field)[1]

\* the symbol data row j of the run's file carries
SymbolAt(r, j) == Strip(DictRows(r.file)[j][ColumnOf(r, "stock_symbol")])

\* the first row of the run's file that raised no error and has the symbol
FirstRowOf(r, stock_symbol) ==
    DictRows(r.file)[
        CHOOSE j \in 1..Len(r.file.rows) \ ErrorRows(r.result) :
            /\ SymbolAt(r, j) = stock_symbol
            /\ \A k \in 1..(j - 1) :
                  k \in ErrorRows(r.result) \/ SymbolAt(r, k) # stock_symbol]

StockOf(r, candle) == CHOOSE st \in r.stocks : st.stock_id = candle.stock

\* C5: a run leaves every Stock and Candlestick that existed before it as it
\* was; a record it creates has the values of the first row that gave its key,
\* whatever later rows with that key carry; and each row that raised no error
\* either created its candlestick, and was counted, or added one duplicate
\* warning.
C5_FirstWriterWins ==
    \A i \in 1..Len(runs) :
        /\ runs[i].stocks_before \subseteq runs[i].stocks
        /\ runs[i].candlesticks_before \subseteq runs[i].candlesticks
        /\ runs[i].result.candlesticks_processed
              = Cardinality(runs[i].candlesticks \ runs[i].candlesticks_before)
        /\ runs[i].result.success =>
              /\ DuplicateWarnings(runs[i].result.warnings)
                    = Len(runs[i].file.rows) - Len(runs[i].result.errors)
                      - runs[i].result.candlesticks_processed
              /\ \A st \in runs[i].stocks \ runs[i].stocks_before :
                    st.stock_group
                       = Strip(FirstRowOf(runs[i], st.stock_symbol)[ColumnOf(runs[i], "stock_group")])
              /\ \A c \in runs[i].candlesticks \ runs[i].candlesticks_before :
                    /\ c.open_price = Some(Decimal(Strip(
                          FirstRowOf(runs[i], StockOf(runs[i], c).stock_symbol)[
                              ColumnOf(runs[i], "open_price")])).val)
                    /\ c.prev_close_price = Some(Decimal(Strip(
                          FirstRowOf(runs[i], StockOf(runs[i], c).stock_symbol)[
                              ColumnOf(runs[i], "prev_close_price")])).val)

\* a later file carried other values for a stock and a candlestick an
\* earlier file had created
C5_Witness ==
    \E i \in 1..(Len(runs) - 1) :
        /\ runs[i].result.candlesticks_processed = 1
        /\ Len(runs[i + 1].file.rows) = 1
        /\ Len(runs[i].file.rows) = 1
        /\ runs[i + 1].file.name = runs[i].file.name
        /\ runs[i + 1].file.rows[1][1] = runs[i].file.rows[1][1]
        /\ runs[i + 1].file.rows[1][5] # runs[i].file.rows[1][5]
        /\ DuplicateWarnings(runs[i + 1].result.warnings) = 1
        /\ runs[i + 1].result.candlesticks_processed = 0

\* C6: when the name parses, the mapping resolves and the file opens, a key
\* of the mapping absent from the header - a column mapped to 'ignore' too -
\* makes the result a failure that names the missing columns, with no row
\* processed and both tables as they were; a header that has every key is
\* accepted, whatever other columns it has.
C6_HeaderValidation ==
    \A i \in 1..Len(runs) :
        (MappingResolves(runs[i].file) /\ runs[i].file.readable /\ ReadsAsWritten(runs[i].file)) =>
            IF MissingColumns(runs[i].file) # {}
            THEN /\ ~runs[i].result.success
                 /\ runs[i].result.error
                       = FileExc("Missing required columns for exchange", "",
                                 MissingColumns(runs[i].file))
                 /\ runs[i].result.stocks_processed = 0
                 /\ runs[i].result.candlesticks_processed = 0
                 /\ runs[i].result.errors = <<>>
                 /\ runs[i].stocks = runs[i].stocks_before
                 /\ runs[i].candlesticks = runs[i].candlesticks_before
            ELSE runs[i].file.decodable =>
                    /\ runs[i].result.success
                    /\ Len(runs[i].result.errors) + runs[i].result.candlesticks_processed
                          + DuplicateWarnings(runs[i].result.warnings) = Len(runs[i].file.rows)

\* a file without the ignored column TDCLOINDI was rejected, and a file with
\* a column of its own was ingested
C6_Witness ==
    \E i, j \in 1..Len(runs) :
        /\ MappingResolves(runs[i].file)
        /\ MissingColumns(runs[i].file) = {"TDCLOINDI"}
        /\ ~runs[i].result.success
        /\ runs[j].file.header[1] = "EXTRA"
        /\ runs[j].result.success
        /\ runs[j].result.candlesticks_processed = 1

\* the result of a run whose rows all failed, or any of them
SuccessWithRows(r) ==
    /\ r.result.success
    /\ "date" \in DOMAIN r.result
    /\ "exchange" \in DOMAIN r.result
    /\ r.result.date = parse_filename(r.file.name, SUPPORTED_EXCHANGES).date
    /\ r.result.exchange = parse_filename(r.file.name, SUPPORTED_EXCHANGES).exchange
    /\ LinesIn(r.file, FailingLines) = 1..Len(r.file.rows) =>
          /\ r.result.stocks_processed = 0
          /\ r.result.candlesticks_processed = 0
          /\ ErrorRows(r.result) = 1..Len(r.file.rows)
          /\ Len(r.result.errors) = Len(r.file.rows)

C8_ZipSuccess ==
    ZipReturned =>
        /\ ~zip_result[1].success <=> (zip_file.bad \/ Discover(zip_file.entries) = <<>>)
        /\ zip_file.bad =>
              /\ zip_result[1].error = FileExc("Failed to process ZIP file", zip_file.name, {})
              /\ ZipRuns = <<>>
        /\ (~zip_file.bad /\ Discover(zip_file.entries) = <<>>) =>
              /\ zip_result[1].error
                    = FileExc("No CSV files found in ZIP archive", zip_file.name, {})
              /\ ZipRuns = <<>>
        /\ zip_result[1].success => Len(ZipRuns) = Len(Discover(zip_file.entries))

\* every file of an archive of two failed and the result is a success
C8_Witness ==
    /\ ZipReturned
    /\ zip_result[1].success
    /\ Len(ZipRuns) = 2
    /\ \A i \in 1..Len(ZipRuns) : RunFailed(ZipRuns[i])
    /\ zip_result[1].total_files_processed = 0

RESULT_KEYS ==
    {"processed_files", "failed_files", "total_files_processed", "total_files_failed",
     "total_stocks", "total_candlesticks", "warnings", "errors"}

\* C9: every result process_zip_file returns - full success, partial
\* success, no CSV file, extraction failure - has all of processed_files,
\* failed_files, total_files_processed, total_files_failed, total_stocks,
\* total_candlesticks, warnings and errors.
C9_FullyPopulated ==
    zip_result # <<>> => RESULT_KEYS \subseteq DOMAIN zip_result[1]

\* C10: the temporary directory of a process_zip_file call exists while the
\* files are processed and no longer exists once the call has returned, by
\* whichever path: the summary, no CSV file, an extraction error, an
\* exception while a file was processed.
C10_ScratchCleanup ==
    /\ pc = "loop" => temp_dir \in temp_dirs
    /\ pc = "idle" => temp_dirs = {}
    /\ ZipReturned => temp_dir \notin temp_dirs

\* a call in which the processing of a file raised has returned
C10_Witness ==
    /\ ZipReturned
    /\ \E i \in 1..Len(ZipRuns) : ZipRuns[i].raised
    /\ temp_dir \notin temp_dirs

(***************************************************************************)
(* C11: the registry's columns                                             *)
(***************************************************************************)
\* the spellings of a code that differ in letter case only
Capitalised(code) ==
    IF code = <<>> THEN code ELSE <<UpperChar(Head(code))>> \o Lower(Tail(code))
LetterCases(code) == {code, Upper(code), Lower(code), Capitalised(code)}

ColumnSet(columns) == {columns[i] : i \in 1..Len(columns)}

EXPECTED_BSE ==
    {"SC_CODE", "SC_NAME", "SC_GROUP", "SC_TYPE", "OPEN", "HIGH", "LOW", "CLOSE", "LAST",
     "PREVCLOSE", "NO_TRADES", "NO_OF_SHRS", "NET_TURNOV", "TDCLOINDI"}
EXPECTED_NSE ==
    {"SYMBOL", "SERIES", "OPEN", "HIGH", "LOW", "CLOSE", "LAST", "PREVCLOSE", "TOTTRDQTY",
     "TOTTRDVAL", "TIMESTAMP", "TOTALTRADES", "ISIN"}

\* the built-in exchanges, before any registration
BuiltinColumns ==
    /\ ColumnSet(get_exchange_columns(EXCHANGE_MAPPINGS, BSE)) = EXPECTED_BSE
    /\ Len(get_exchange_columns(EXCHANGE_MAPPINGS, BSE)) = Cardinality(EXPECTED_BSE)
    /\ ColumnSet(get_exchange_columns(EXCHANGE_MAPPINGS, NSE)) = EXPECTED_NSE
    /\ Len(get_exchange_columns(EXCHANGE_MAPPINGS, NSE)) = Cardinality(EXPECTED_NSE)

\* what holds right after add_exchange_support(code, mapping)
RegisteredColumns(code, mapping) ==
    /\ \A c \in LetterCases(code) :
          /\ ColumnSet(get_exchange_columns(EXCHANGE_MAPPINGS', c)) = Keys(mapping)
          /\ Len(get_exchange_columns(EXCHANGE_MAPPINGS', c)) = Cardinality(Keys(mapping))
    /\ InList(Upper(code), get_supported_exchanges(SUPPORTED_EXCHANGES'))

\* C11: before any registration get_exchange_columns returns the 14 declared
\* BSE columns and the 13 declared NSE columns, and every step that is
\* add_exchange_support(code, mapping) leaves a registry in which
\* get_exchange_columns returns exactly the keys of mapping for every letter
\* case of code and get_supported_exchanges contains the upper-cased code.
C11_RegistryColumns ==
    /\ BuiltinColumns
    /\ [][\A code \in REGISTERED_NAMES, mapping \in REGISTERED_MAPPINGS :
              AddExchangeSupport(code, mapping) => RegisteredColumns(code, mapping)]_vars

\* XYZ was registered under its lower-case spelling and is looked up in upper case
C11_Witness ==
    /\ XYZ \in DOMAIN EXCHANGE_MAPPINGS
    /\ InList(XYZ, get_supported_exchanges(SUPPORTED_EXCHANGES))
    /\ get_exchange_columns(EXCHANGE_MAPPINGS, Lower(XYZ)) = KeyList(XYZ_MAPPING)
    /\ get_exchange_columns(EXCHANGE_MAPPINGS, XYZ) = KeyList(XYZ_MAPPING)

(***************************************************************************)
(* C12: files of an exchange registered at run time                        *)
(***************************************************************************)
\* the exchange part of a name of the form <date>_<code>.csv
CodeOf(fname) == SubSeq(fname, DateLen + 2, Len(fname) - Len(EXT_csv))

\* the code was registered with a mapping that has the symbol and the five
\* prices, the file is named <date>_<code>.csv, its header is the
\* mapping's columns in order and every row of it is valid
RegisteredFile(file) ==
    /\ Upper(CodeOf(file.name)) \in DOMAIN EXCHANGE_MAPPINGS \ {BSE, NSE}
    /\ file.name = FileName(D_20250101, CodeOf(file.name), EXT_csv)
    /\ file.header = KeyList(EXCHANGE_MAPPINGS[Upper(CodeOf(file.name))])
    /\ \A j \in 1..Len(file.rows) : \E k \in VALID_KINDS : file.rows[j] = XyzLine(k)

LastRun == runs[Len(runs)]

\* C12: every engine call on a file of a registered exchange (name
\* YYYYMMDD_<code>.csv, header exactly the mapping's columns, valid rows)
\* returns success = true.
C12_RegisteredIngests ==
    [][\A file \in REGISTRY_FILES :
          RegisteredFile(file) /\ ProcessCsvFile(file) => LastRun'.result.success]_vars

(***************************************************************************)
(* C13: the name and the group of a Stock                                  *)
(***************************************************************************)
\* the Stocks a run created
CreatedStocks(r) == r.stocks \ r.stocks_before

\* the cell of the row that created the Stock, by the file's column name
CreatingCell(r, st, column) == Strip(FirstRowOf(r, st.stock_symbol)[column])

\* C13: a Stock created from a row of an NSE file has the row's SYMBOL as
\* stock_symbol and as stock_name and the row's SERIES as stock_group; a
\* Stock created from a row of a file of another exchange has as stock_name
\* the cell of the column mapped to stock_name.
C13_NseDerivation ==
    \A i \in 1..Len(runs) :
        runs[i].result.success =>
            \A st \in CreatedStocks(runs[i]) :
                /\ st.stock_exchange = runs[i].result.exchange
                /\ IF runs[i].result.exchange = NSE
                   THEN /\ st.stock_symbol = CreatingCell(runs[i], st, "SYMBOL")
                        /\ st.stock_name = CreatingCell(runs[i], st, "SYMBOL")
                        /\ st.stock_group = CreatingCell(runs[i], st, "SERIES")
                   ELSE st.stock_name
                           = CreatingCell(runs[i], st, ColumnOf(runs[i], "stock_name"))

\* an NSE file and a BSE file each created a Stock for the same symbol
C13_Witness ==
    \E i, j \in 1..Len(runs) :
        /\ runs[i].result.success /\ runs[i].result.exchange = NSE
        /\ \E st \in CreatedStocks(runs[i]) :
              st.stock_symbol = SYM1 /\ st.stock_name = SYM1 /\ st.stock_group = <<"A">>
        /\ runs[j].result.success /\ runs[j].result.exchange = BSE
        /\ \E st \in CreatedStocks(runs[j]) :
              st.stock_symbol = SYM1 /\ st.stock_name = NAME1

(***************************************************************************)
(* C14: bad values in optional numeric fields                              *)
(***************************************************************************)
\* the values NO_TRADES takes in the files of the model
OPTIONAL_VALUES == {V_5, V_EMPTY, V_INVALID, V_INF}

\* lines with a symbol and five valid prices, whatever NO_TRADES holds
OtherwiseValidLines ==
    {BseLine([k EXCEPT !.trades = t]) : k \in VALID_KINDS, t \in OPTIONAL_VALUES}
    \cup {NseLine([k EXCEPT !.trades = t]) : k \in VALID_KINDS, t \in OPTIONAL_VALUES}

\* the NO_TRADES cell of data row j as _process_row hands it to validate_integer
TradesCell(r, j) == Strip(DictRows(r.file)[j][ColumnOf(r, "number_of_trades")])

\* C14: in every successful run, validate_integer raises for no
\* number_of_trades cell of the file, and no row that has a symbol and five
\* valid prices is recorded in errors, whatever its number_of_trades cell
\* holds.
C14_OptionalNeverAborts ==
    \A i \in 1..Len(runs) :
        runs[i].result.success =>
            \A j \in LinesIn(runs[i].file, OtherwiseValidLines) :
                /\ validate_integer(TradesCell(runs[i], j), "number_of_trades", <<>>).exc = NoExc
                /\ j \notin ErrorRows(runs[i].result)

(***************************************************************************)
(* C15: the CsvFile records                                                *)
(***************************************************************************)
\* the record a run's file is to have
RecordOf(r) ==
    [filename |-> r.file.name, date |-> r.result.date, exchange |-> r.result.exchange,
     stocks_processed |-> r.result.stocks_processed,
     candlesticks_processed |-> r.result.candlesticks_processed]

RecordsOf(rs) == [i \in 1..Len(rs) |-> RecordOf(rs[i])]

\* the runs of the two ingestion paths that ended in success
SucceededRun(r) == r.path \in {"archive", "upload"} /\ r.result.success
\* and whose record was saved without an exception
RecordedRun(r) == SucceededRun(r) /\ ~r.raised

BaseName(fname) == SubSeq(fname, 1, Len(fname) - Len(DOT_CSV))

\* C16: a name the orchestrator's test lets through (it ends in .csv in any
\* letter case and does not start with a dot) whose base name is a calendar
\* date, an underscore and a registered exchange is parsed by
\* parse_filename to that date and the upper-cased exchange.
C16_ExtensionAnyCase ==
    ( /\ parsed # <<>>
      /\ IsCsvFile(filename)
      /\ WellFormedName(Split(BaseName(filename), "_"), parsed[1].supported) )
    => parsed[1].result = [ok |-> TRUE,
                           date |-> DateWritten(SubSeq(filename, 1, DateLen)),
                           exchange |-> Upper(Split(BaseName(filename), "_")[2])]

(***************************************************************************)
(* C17: the warnings of an archive's files in the aggregate                *)
(***************************************************************************)
\* the runs of the archive that counted as processed
ZipSucceeded == SelectSeq(ZipRuns, LAMBDA r : ~RunFailed(r))

\* C17 as claimed: the aggregate warnings hold every warning of every
\* successfully processed file of the archive, tagged with the filename.
C17_AsClaimed ==
    ZipReturned =>
        \A i \in 1..Len(ZipSucceeded) :
            \A w \in 1..Len(ZipSucceeded[i].result.warnings) :
                InList([filename |-> ZipSucceeded[i].file.name,
                        text |-> ZipSucceeded[i].result.warnings[w]],
                       zip_result[1].warnings)

\* the warnings of a file that reach the aggregate
Shown(list) ==
    [w \in 1..(IF Len(list) > ShownPerFile THEN ShownPerFile ELSE Len(list)) |-> list[w]]

RECURSIVE ShownOf(_)
ShownOf(rs) ==
    IF rs = <<>> THEN <<>>
    ELSE Tagged(Head(rs).file.name, Shown(Head(rs).result.warnings)) \o ShownOf(Tail(rs))

\* C17: after process_zip_file the aggregate warnings are, file after file
\* in processing order, the first three warnings of each successfully
\* processed file (all of them when there are at most three), each tagged
\* with the filename; every processed_files entry carries its file's full
\* warnings list.
C17_FirstThreeWarnings ==
    (ZipReturned /\ zip_result[1].success) =>
        /\ zip_result[1].warnings = ShownOf(ZipSucceeded)
        /\ Len(zip_result[1].processed_files) = Len(ZipSucceeded)
        /\ \A i \in 1..Len(ZipSucceeded) :
              zip_result[1].processed_files[i].warnings = ZipSucceeded[i].result.warnings

\* a file with four warnings was processed and three of them were aggregated
C17_Witness ==
    /\ ZipReturned
    /\ Len(ZipSucceeded) = 1
    /\ Len(ZipSucceeded[1].result.warnings) = 4
    /\ Len(zip_result[1].warnings) = 3

(***************************************************************************)
(* C18: the row errors of an archive's files in the aggregate              *)
(***************************************************************************)
\* C18: after process_zip_file the aggregate errors hold every row error of
\* every successfully processed file of the archive, tagged with the
\* filename.
C18_RowErrorsAggregated ==
    ZipReturned =>
        \A i \in 1..Len(ZipSucceeded) :
            \A e \in 1..Len(ZipSucceeded[i].result.errors) :
                InList([filename |-> ZipSucceeded[i].file.name,
                        text |-> ZipSucceeded[i].result.errors[e]],
                       zip_result[1].errors)

(***************************************************************************)
(* C19: the price check of the form and of the CSV engine                  *)
(***************************************************************************)
\* the four prices of the submission passed their fields' validation
PricesCleaned(data) ==
    /\ ~data.open_price.isNone /\ ~data.high_price.isNone
    /\ ~data.low_price.isNone /\ ~data.close_price.isNone

\* lines whose opening price is above the high
InconsistentLines == {BseLine([k EXCEPT !.open = V_1500_0]) : k \in VALID_KINDS}

\* C19: CandlestickForm.clean raises a ValidationError for every submission
\* whose high is below the greatest of open, low and close or whose low is
\* above the least of open, high and close, zero prices included; the CSV
\* engine ingests a row with such prices without an error.
C19_PriceCheck ==
    /\ ( /\ cleaned_data # <<>>
         /\ PricesCleaned(cleaned_data[1])
         /\ HighBelowOthers(cleaned_data[1]) \/ LowAboveOthers(cleaned_data[1]) )
       => validation_error # ""
    /\ \A i \in 1..Len(runs) :
          runs[i].result.success =>
              LinesIn(runs[i].file, InconsistentLines) \cap ErrorRows(runs[i].result) = {}

(***************************************************************************)
(* C20: the store's invariants                                             *)
(***************************************************************************)
\* unique_together of Stock and of Candlestick, and the foreign key
StoreConsistent ==
    /\ \A s1, s2 \in stock_table :
          (s1.stock_symbol = s2.stock_symbol /\ s1.stock_exchange = s2.stock_exchange)
              => s1 = s2
    /\ \A c1, c2 \in candlestick_table :
          (c1.stock = c2.stock /\ c1.candle_date = c2.candle_date) => c1 = c2
    /\ \A c \in candlestick_table : \E st \in stock_table : st.stock_id = c.stock

\* a step deletes and changes no Stock and no Candlestick
StoreGrows ==
    /\ stock_table \subseteq stock_table'
    /\ candlestick_table \subseteq candlestick_table'

\* C20: after any sequence of direct engine calls, uploads and archive
\* ingestions no two Stocks have the same (stock_symbol, stock_exchange), no
\* two Candlesticks the same (stock, candle_date), every Candlestick refers
\* to a Stock of the store, and no step removes a Stock or a Candlestick.
C20_StoreInvariants == []StoreConsistent /\ [][StoreGrows]_vars

\* an upload and an archive both added candlesticks, two stocks are stored
C20_Witness ==
    /\ Cardinality(stock_table) = 2
    /\ Cardinality(candlestick_table) >= 2
    /\ \E i, j \in 1..Len(runs) :
          /\ runs[i].path = "upload" /\ runs[i].result.candlesticks_processed > 0
          /\ runs[j].path = "archive" /\ runs[j].result.candlesticks_processed > 0

(***************************************************************************)
(* C21: a hard failure processes nothing                                   *)
(***************************************************************************)
\* the failures of the filename, the mapping, open() and the header check
HARD_FAILURES ==
    {"Error parsing filename", "No column mapping found for exchange", "open",
     "Missing required columns for exchange"}

HardFailure(r) == ~r.result.success /\ r.result.error.msg \in HARD_FAILURES

\* C21: a process_csv_file call that fails on the filename, the mapping,
\* open() or the headers leaves the Stock and Candlestick tables as they
\* were and reports stocks_processed = 0, candlesticks_processed = 0 and
\* empty errors and warnings, whatever the processor did before.
C21_HardFailureProcessesNothing ==
    \A i \in 1..Len(runs) :
        HardFailure(runs[i]) =>
            /\ runs[i].stocks = runs[i].stocks_before
            /\ runs[i].candlesticks = runs[i].candlesticks_before
            /\ runs[i].result.stocks_processed = 0
            /\ runs[i].result.candlesticks_processed = 0
            /\ runs[i].result.errors = <<>>
            /\ runs[i].result.warnings = <<>>

\* the processor ingested a file with a warning and an error, and failed on
\* the headers of the next
C21_Witness ==
    /\ Len(runs) = 2
    /\ runs[1].path = "direct" /\ runs[2].path = "direct"
    /\ runs[1].result.success
    /\ runs[1].result.stocks_processed > 0
    /\ runs[1].result.warnings # <<>>
    /\ runs[1].result.errors # <<>>
    /\ HardFailure(runs[2])
    /\ runs[2].result.error.msg = "Missing required columns for exchange"


\* C22: the result of the engine call just made (every call is the last one
\* when it returns) is what a fresh engine returns for that file on the same
\* store, and the errors and warnings lists of every
\* earlier result, the processed_files entries of the batch included, still
\* hold what they held when the result was returned
FreshResult(r) ==
    process_csv_file(NewProcessor, r.stocks_before, r.candlesticks_before,
                     EXCHANGE_MAPPINGS, SUPPORTED_EXCHANGES, r.file, r.file.name).result

ListsKept(r) ==
    /\ heap[r.refs.errors] = r.result.errors
    /\ heap[r.refs.warnings] = r.result.warnings

C22_EngineReuse ==
    /\ runs # <<>> => LastRun.result = FreshResult(LastRun)
    /\ \A i \in 1..Len(runs) : ListsKept(runs[i])
    /\ \A k \in 1..Len(bulk.processed_files) :
           heap[ZipSucceeded[k].refs.warnings] = bulk.processed_files[k].warnings

C22_Witness ==
    /\ Len(runs) = 2
    /\ runs[1].path = "direct" /\ runs[2].path = "direct"
    /\ runs[1].result.success /\ runs[2].result.success
    /\ runs[1].result.warnings # <<>>
    /\ runs[1].result.errors # <<>>
    /\ runs[2].result.warnings # runs[1].result.warnings
    /\ runs[2].result.stocks_processed # runs[1].result.stocks_processed


(***************************************************************************)
(* C23: the mapping of a parsed exchange                                   *)
(***************************************************************************)
NoMappingFound(r) ==
    ~r.result.success /\ r.result.error.msg = "No column mapping found for exchange"

\* C23: in every registry state that add_exchange_support calls lead to, an
\* engine call on a file whose name parse_filename accepts does not fail with
\* "No column mapping found for exchange".
C23_MappingResolves ==
    [][\A file \in REGISTRY_FILES :
          NameParses(file) /\ ProcessCsvFile(file) => ~NoMappingFound(LastRun')]_vars


(***************************************************************************)
(* C24: the registry after add_exchange_support calls                      *)
(***************************************************************************)
RegistryConsistent ==
    /\ \A i, j \in 1..Len(SUPPORTED_EXCHANGES) :
           SUPPORTED_EXCHANGES[i] = SUPPORTED_EXCHANGES[j] => i = j
    /\ {SUPPORTED_EXCHANGES[i] : i \in 1..Len(SUPPORTED_EXCHANGES)} = DOMAIN EXCHANGE_MAPPINGS
    /\ \A c \in DOMAIN EXCHANGE_MAPPINGS : Upper(c) = c

\* the mapping of the code is the one just given, the others stay
LatestStored(code, mapping) ==
    /\ EXCHANGE_MAPPINGS'[Upper(code)] = mapping
    /\ \A c \in DOMAIN EXCHANGE_MAPPINGS \ {Upper(code)} :
           EXCHANGE_MAPPINGS'[c] = EXCHANGE_MAPPINGS[c]

\* the processor in use, whenever it was created, parses the name of a file
\* of a code that is a key of the registry now
SeenBy(file) ==
    Upper(CodeOf(file.name)) \in DOMAIN EXCHANGE_MAPPINGS /\ Len(CodeOf(file.name)) <= MaxExchangeLen
        => ~(~LastRun'.result.success /\ LastRun'.result.error.msg = "Error parsing filename")

\* C24: after any add_exchange_support calls SUPPORTED_EXCHANGES has no code
\* twice and has the keys of EXCHANGE_MAPPINGS as its elements, every key is
\* upper-case, a call leaves its mapping stored for its code (and the other
\* mappings as they were), and engine calls of a processor created before
\* the registration see it.
C24_RegistryConsistency ==
    /\ []RegistryConsistent
    /\ [][\A code \in REGISTRY_CODES, mapping \in REGISTRY_MAPPINGS :
              AddExchangeSupport(code, mapping) => LatestStored(code, mapping)]_vars
    /\ [][\A file \in REGISTRY_FILES : ProcessCsvFile(file) => SeenBy(file)]_vars

\* XYZ was registered twice, after LONGEXCHANG: first with a mapping a file was
\* ingested under by the processor created at the start, then with another
C24_Witness ==
    /\ Len(runs) = 1
    /\ runs[1].result.success /\ runs[1].result.exchange = XYZ
    /\ SUPPORTED_EXCHANGES = <<BSE, NSE, LONG_CODE, XYZ>>
    /\ EXCHANGE_MAPPINGS[XYZ] = <<>>
    /\ EXCHANGE_MAPPINGS[LONG_CODE] = XYZ_MAPPING


(***************************************************************************)
(* C25: rows rejected by validation                                        *)
(***************************************************************************)
\* the file without its rows of a blank symbol or an unparseable price
WithoutRejected(file) ==
    [file EXCEPT !.rows = SelectSeq(file.rows, LAMBDA line : line \notin FailingLines)]

RejectedRows(file) == LinesIn(file, FailingLines)

\* what the call would have left had the file not held the rejected rows
Accepted(r) ==
    process_csv_file(NewProcessor, r.stocks_before, r.candlesticks_before,
                     EXCHANGE_MAPPINGS, SUPPORTED_EXCHANGES,
                     WithoutRejected(r.file), r.file.name)

REJECTIONS == {"(stock symbol) is required", "Missing required price data"}

SameStore(r, a) ==
    /\ r.stocks = a.stocks
    /\ r.candlesticks = a.candlesticks
    /\ r.result.stocks_processed = a.result.stocks_processed
    /\ r.result.candlesticks_processed = a.result.candlesticks_processed

\* C25: the rows with a blank symbol or a blank or unparseable required price
\* get the error "... (stock symbol) is required" or "Missing required price
\* data" and change nothing: the tables and both counters are what the call
\* leaves for the file without these rows.
C25_RejectedRowsStoreNothing ==
    runs # <<>> /\ LastRun.file \in GoodBseFiles \cup GoodNseFiles =>
        /\ \A j \in RejectedRows(LastRun.file) :
               \E e \in 1..Len(LastRun.result.errors) :
                   /\ LastRun.result.errors[e].row = j + 1
                   /\ LastRun.result.errors[e].exc.msg \in REJECTIONS
        /\ SameStore(LastRun, Accepted(LastRun))

\* a row of a symbol new to the store with an unparseable price and a row
\* with a blank symbol, in a store that has a Stock already: no new Stock
C25_Witness ==
    /\ Len(runs) = 2
    /\ Len(runs[2].file.rows) = 2
    /\ runs[2].file.rows[1] \in BadPriceLines
    /\ runs[2].file.rows[2] \in FailingLines \ BadPriceLines
    /\ runs[2].stocks_before # {}
    /\ \A st \in runs[2].stocks_before : st.stock_symbol # runs[2].file.rows[1][1]
    /\ Len(runs[2].result.errors) = 2
    /\ runs[2].stocks = runs[2].stocks_before


(***************************************************************************)
(* C26: every data row is accounted for once                               *)
(***************************************************************************)
\* the Candlesticks a run created
CreatedCandles(r) == r.candlesticks \ r.candlesticks_before

\* C26: in every result with success = true the number of data rows read is
\* len(errors) + candlesticks_processed + the number of "Duplicate
\* candlestick" warnings; no row has two errors and candlesticks_processed
\* is the number of Candlesticks created.
C26_RowAccounting ==
    \A i \in 1..Len(runs) :
        runs[i].result.success =>
            /\ Len(DictRows(runs[i].file)) =
                   Len(runs[i].result.errors) + runs[i].result.candlesticks_processed
                       + DuplicateWarnings(runs[i].result.warnings)
            /\ Cardinality(ErrorRows(runs[i].result)) = Len(runs[i].result.errors)
            /\ Cardinality(CreatedCandles(runs[i])) = runs[i].result.candlesticks_processed

\* a file of three rows: one stored, one a duplicate of it, one rejected
C26_Witness ==
    \E i \in 1..Len(runs) :
        /\ runs[i].result.success
        /\ Len(runs[i].file.rows) = 3
        /\ Len(runs[i].result.errors) = 1
        /\ runs[i].result.candlesticks_processed = 1
        /\ DuplicateWarnings(runs[i].result.warnings) = 1


(***************************************************************************)
(* C27: the two counters and the rows                                      *)
(***************************************************************************)
\* C27: in every result stocks_processed <= candlesticks_processed <= the
\* number of data rows, and every Stock the call created has a Candlestick
\* the same call created.
C27_CountersOrdered ==
    \A i \in 1..Len(runs) :
        /\ runs[i].result.stocks_processed <= runs[i].result.candlesticks_processed
        /\ runs[i].result.candlesticks_processed <= Len(runs[i].file.rows)
        /\ \A st \in CreatedStocks(runs[i]) :
               \E c \in CreatedCandles(runs[i]) : c.stock = st.stock_id

\* a call that created Candlesticks for a Stock it created and for a Stock
\* that was there, after a call with a rejected row
C27_Witness ==
    /\ Len(runs) = 2
    /\ runs[1].result.candlesticks_processed < Len(runs[1].file.rows)
    /\ runs[1].result.stocks_processed = 1
    /\ runs[2].result.stocks_processed = 1
    /\ runs[2].result.candlesticks_processed = 2


(***************************************************************************)
(* C28: every discovered file is in one of the two lists                   *)
(***************************************************************************)
FileNames(list) == [k \in 1..Len(list) |-> list[k].filename]
RunNames(rs) == [k \in 1..Len(rs) |-> rs[k].file.name]

\* the files attempted so far are the first discovered ones, in order, and
\* the two lists are the attempted files split by outcome, each in order
Partitioned(b) ==
    /\ Len(ZipRuns) = file_index
    /\ \A k \in 1..file_index : ZipRuns[k].file = csv_files[k]
    /\ FileNames(b.processed_files) = RunNames(ZipSucceeded)
    /\ FileNames(b.failed_files) = RunNames(SelectSeq(ZipRuns, RunFailed))
    /\ Len(b.processed_files) + Len(b.failed_files) = file_index

\* C28: while the per-file loop runs the files are attempted one at a time in
\* discovery order and each attempted file is in exactly one of
\* processed_files and failed_files, once; in the result every discovered
\* file is, and total_files_processed + total_files_failed is the number of
\* discovered files.
C28_FilePartition ==
    /\ pc = "loop" => Partitioned(bulk)
    /\ (ZipReturned /\ zip_result[1].success) =>
           /\ file_index = Len(Discover(zip_file.entries))
           /\ Partitioned(zip_result[1])
           /\ zip_result[1].total_files_processed + zip_result[1].total_files_failed
                  = Len(Discover(zip_file.entries))

\* an archive of two files under one name, the first of which raised while
\* its record was saved and the second of which was ingested
C28_Witness ==
    /\ ZipReturned
    /\ Len(ZipRuns) = 2
    /\ ZipRuns[1].raised
    /\ ~RunFailed(ZipRuns[2])
    /\ ZipRuns[1].file.name = ZipRuns[2].file.name
    /\ Len(zip_result[1].processed_files) = 1
    /\ Len(zip_result[1].failed_files) = 1


(***************************************************************************)
(* C29: the totals of a batch                                              *)
(***************************************************************************)
RECURSIVE SumStocks(_)
SumStocks(list) ==
    IF list = <<>> THEN 0 ELSE Head(list).stocks_processed + SumStocks(Tail(list))

RECURSIVE SumCandlesticks(_)
SumCandlesticks(list) ==
    IF list = <<>> THEN 0 ELSE Head(list).candlesticks_processed + SumCandlesticks(Tail(list))

\* the totals are those of processed_files; b is the processor or a result
TotalsConsistent(b) ==
    /\ b.total_files_processed = Len(b.processed_files)
    /\ b.total_stocks = SumStocks(b.processed_files)
    /\ b.total_candlesticks = SumCandlesticks(b.processed_files)

FailedCounted(result) ==
    /\ "total_files_failed" \in DOMAIN result
    /\ result.total_files_failed = Len(result.failed_files)

\* C29: at every point of a batch and in every result of process_zip_file
\* total_files_processed = len(processed_files), total_files_failed =
\* len(failed_files), and total_stocks and total_candlesticks are the sums of
\* stocks_processed and candlesticks_processed over processed_files.
C29_TotalsConsistent ==
    /\ pc = "loop" => TotalsConsistent(bulk)
    /\ zip_result # <<>> => TotalsConsistent(zip_result[1]) /\ FailedCounted(zip_result[1])

\* what holds of the totals: the same with total_files_failed compared in
\* the results that have it
TotalsWhereCounted ==
    /\ pc = "loop" => TotalsConsistent(bulk)
    /\ zip_result # <<>> =>
           /\ TotalsConsistent(zip_result[1])
           /\ "total_files_failed" \in DOMAIN zip_result[1] => FailedCounted(zip_result[1])


(***************************************************************************)
(* C30: the report of a batch and the store                                *)
(***************************************************************************)
\* the records the engine calls of the batch created
BatchStocks == ZipRuns[Len(ZipRuns)].stocks \ ZipRuns[1].stocks_before
BatchCandlesticks == ZipRuns[Len(ZipRuns)].candlesticks \ ZipRuns[1].candlesticks_before

\* C30: when process_zip_file has returned, no file of failed_files (a file
\* whose engine result was a failure or whose processing raised) has added a
\* Stock or a Candlestick, and total_stocks and total_candlesticks are the
\* numbers of Stocks and Candlesticks created during the batch.
C30_ReportMatchesStore ==
    (ZipReturned /\ ZipRuns # <<>>) =>
        /\ \A i \in 1..Len(ZipRuns) :
               RunFailed(ZipRuns[i]) =>
                   /\ ZipRuns[i].stocks = ZipRuns[i].stocks_before
                   /\ ZipRuns[i].candlesticks = ZipRuns[i].candlesticks_before
        /\ zip_result[1].total_stocks = Cardinality(BatchStocks)
        /\ zip_result[1].total_candlesticks = Cardinality(BatchCandlesticks)

\* the report where no processing raised: the failed files stored nothing
\* and the totals are the records created
ReportMatchesUnlessRaised ==
    (ZipReturned /\ ZipRuns # <<>> /\ \A i \in 1..Len(ZipRuns) : ~ZipRuns[i].raised) =>
        /\ \A i \in 1..Len(ZipRuns) :
               RunFailed(ZipRuns[i]) => ZipRuns[i].stocks = ZipRuns[i].stocks_before
        /\ zip_result[1].total_stocks = Cardinality(BatchStocks)
        /\ zip_result[1].total_candlesticks = Cardinality(BatchCandlesticks)

====
